---- MODULE Spec2Model ----
(***************************************************************************)
(* A model of the conversation orchestration engine of pilot/backend:      *)
(* AutoImportAgent (agent.py) and the resilience layer (errors.py).        *)
(*                                                                         *)
(* Python values are tagged records: None is [null |-> TRUE], a str is     *)
(* [text |-> <<chars>>] and an int is [num |-> n].  A text is a sequence   *)
(* of one-character strings so that lower(), replace(), "in" and the       *)
(* regular expression of _parse_budget are computed, not tabulated.  The   *)
(* Cyrillic letters of the source are written with one Latin letter each:  *)
(*   s r o c n o  = U+0441 U+0440 U+043E U+0447 U+043D U+043E  (urgent)    *)
(*   b y s t r    = U+0431 U+044B U+0441 U+0442 U+0440         (fast)      *)
(*   m l n        = U+043C U+043B U+043D                       (mln)       *)
(*   m i l l i o n= U+043C U+0438 U+043B U+043B U+0438 U+043E U+043D       *)
(*   t y s        = U+0442 U+044B U+0441                       (thousand)  *)
(*   t y s q c    = U+0442 U+044B U+0441 U+044F U+0447                     *)
(* and an upper-case Cyrillic letter with the upper-case Latin letter.     *)
(***************************************************************************)
EXTENDS Integers, Sequences, FiniteSets, TLC

(***************************************************************************)
(* Python values                                                           *)
(***************************************************************************)
NULL == [null |-> TRUE]
Text(s) == [text |-> s]
Num(n) == [num |-> n]

IsNull(v) == "null" \in DOMAIN v
IsText(v) == "text" \in DOMAIN v
IsNum(v) == "num" \in DOMAIN v

\* bool(v): None, "", 0, False and 0.0 are falsy; float("nan") and
\* float("inf") are truthy.
Truthy(v) ==
    IF IsNull(v) THEN FALSE
    ELSE IF IsText(v) THEN v.text # <<>>
    ELSE IF IsNum(v) THEN v.num # 0
    ELSE IF "bool" \in DOMAIN v THEN v.bool
    ELSE IF "float" \in DOMAIN v THEN v.float[1] # 0
    ELSE TRUE

\* dict.get(key) and dict.get(key, default)
GetOr(d, k, default) == IF k \in DOMAIN d THEN d[k] ELSE default
Get(d, k) == GetOr(d, k, NULL)

\* d[k] = v on a dict
Put(d, k, v) == [x \in DOMAIN d \cup {k} |-> IF x = k THEN v ELSE d[x]]

EmptyDict == [x \in {} |-> NULL]

(***************************************************************************)
(* str operations                                                          *)
(***************************************************************************)
UpperCase == {"S", "R", "O", "C", "N", "B", "Y", "T", "M", "L", "I", "Q"}

LowerChar(c) ==
    CASE c = "S" -> "s" [] c = "R" -> "r" [] c = "O" -> "o" [] c = "C" -> "c"
      [] c = "N" -> "n" [] c = "B" -> "b" [] c = "Y" -> "y" [] c = "T" -> "t"
      [] c = "M" -> "m" [] c = "L" -> "l" [] c = "I" -> "i" [] c = "Q" -> "q"
      [] OTHER -> c

\* str.lower()
Lower(s) == [i \in 1..Len(s) |-> LowerChar(s[i])]

\* needle in s
Contains(s, needle) ==
    \E i \in 0..(Len(s) - Len(needle)) :
        \A j \in 1..Len(needle) : s[i + j] = needle[j]

\* the urgency markers of line 214 and the magnitude markers of lines 179-181
MarkerUrgent == <<"s", "r", "o", "c", "n", "o">>
MarkerFast == <<"b", "y", "s", "t", "r">>
MarkerMln == <<"m", "l", "n">>
MarkerMillion == <<"m", "i", "l", "l", "i", "o", "n">>
MarkerTys == <<"t", "y", "s">>
MarkerTysyach == <<"t", "y", "s", "q", "c">>

(***************************************************************************)
(* AutoImportAgent: class constants                                        *)
(***************************************************************************)
SLOTS == <<"car_brand", "car_model", "budget_min", "budget_max", "country",
           "timeline", "body_type", "name", "phone">>

REQUIRED_FOR_QUALIFICATION == <<"car_brand", "budget_max">>
REQUIRED_FOR_CLOSING == <<"name", "phone">>

\* the business thresholds of _determine_stage and the magnitudes of
\* _parse_budget
HotBudget == 3000000
WarmBudget == 1500000
Million == 1000000
Thousand == 1000
SmallNumber == 100

None == "None"

Range(f) == {f[i] : i \in DOMAIN f}

(***************************************************************************)
(* _parse_budget (agent.py 162-188).  The result is [raised, value]:       *)
(* float() raises ValueError on a numeric substring that is no number.     *)
(***************************************************************************)
Digits == {"0", "1", "2", "3", "4", "5", "6", "7", "8", "9"}

DigitVal(c) ==
    CASE c = "0" -> 0 [] c = "1" -> 1 [] c = "2" -> 2 [] c = "3" -> 3
      [] c = "4" -> 4 [] c = "5" -> 5 [] c = "6" -> 6 [] c = "7" -> 7
      [] c = "8" -> 8 [] c = "9" -> 9

\* value.lower().replace(" ", "").replace(",", ".")
RECURSIVE Normalize(_)
Normalize(s) ==
    IF s = <<>> THEN <<>>
    ELSE LET c == LowerChar(Head(s))
             rest == Normalize(Tail(s))
         IN  IF c = " " THEN rest
             ELSE IF c = "," THEN <<".">> \o rest
             ELSE <<c>> \o rest

NumChar(c) == c \in Digits \cup {"."}

\* re.findall(r'[\d.]+', value)[0]: the first maximal run of digits and
\* dots, <<>> when there is none
RECURSIVE TakeRun(_)
TakeRun(s) ==
    IF s = <<>> \/ ~NumChar(Head(s)) THEN <<>>
    ELSE <<Head(s)>> \o TakeRun(Tail(s))

RECURSIVE FirstNumber(_)
FirstNumber(s) ==
    IF s = <<>> THEN <<>>
    ELSE IF NumChar(Head(s)) THEN TakeRun(s)
    ELSE FirstNumber(Tail(s))

CountDots(s) == Cardinality({i \in 1..Len(s) : s[i] = "."})

\* float(text) accepts digits with at most one dot and at least one digit
FloatOk(s) == CountDots(s) <= 1 /\ \E i \in 1..Len(s) : s[i] \in Digits

\* the digits of the run as an integer, the dot dropped
RECURSIVE Mantissa(_, _)
Mantissa(s, acc) ==
    IF s = <<>> THEN acc
    ELSE IF Head(s) = "." THEN Mantissa(Tail(s), acc)
    ELSE Mantissa(Tail(s), acc * 10 + DigitVal(Head(s)))

RECURSIVE Pow10(_)
Pow10(k) == IF k = 0 THEN 1 ELSE 10 * Pow10(k - 1)

\* 10 ^ (number of digits after the dot)
Scale(s) ==
    IF CountDots(s) = 0 THEN 1
    ELSE LET d == CHOOSE i \in 1..Len(s) : s[i] = "." IN Pow10(Len(s) - d)

\* The values num, in tenths, whose product num * mult the double
\* arithmetic of lines 180-184 leaves just below the exact product, so that
\* int() gives one less: float("4.1") * 1000000 is 4099999.999999999.
\* These are all of them among the values below 100 with at most one
\* digit after the dot; the texts of the model stay within these values
\* and the integers, for which the product is exact.
ShortProducts(mult) ==
    IF mult = Million
    THEN {41, 82, 164, 323, 328, 333, 641, 646, 651, 656, 661, 666, 671}
    ELSE IF mult = Thousand THEN {323, 641, 646, 651}
    ELSE {}

\* int(num * mult) for num = float(s) = Mantissa / Scale >= 0
Times(s, mult) ==
    LET m == Mantissa(s, 0)
        exact == (m * mult) \div Scale(s)
    IN  IF (m * 10) % Scale(s) = 0 /\ (m * 10) \div Scale(s) \in ShortProducts(mult)
        THEN exact - 1
        ELSE exact

\* values that are no str, int or None: a bool, a finite float m / scale,
\* the floats inf and nan, and a value of any other type
Bool(b) == [bool |-> b]
Float(m, scale) == [float |-> <<m, scale>>]
Inf == [inf |-> TRUE]
NaN == [nan |-> TRUE]
Other == [other |-> TRUE]

IsBool(v) == "bool" \in DOMAIN v
IsFloat(v) == "float" \in DOMAIN v
IsNonFinite(v) == v \in {Inf, NaN}

\* int(m / scale): towards zero
Truncate(m, scale) == IF m >= 0 THEN m \div scale ELSE -((-m) \div scale)

\* lines 164-165: isinstance(value, (int, float)) holds for a bool too, and
\* int() raises OverflowError on inf and ValueError on nan
_parse_budget(value) ==
    IF IsNum(value) THEN [raised |-> FALSE, value |-> Num(value.num)]
    ELSE IF IsBool(value)
    THEN [raised |-> FALSE, value |-> Num(IF value.bool THEN 1 ELSE 0)]
    ELSE IF IsFloat(value)
    THEN [raised |-> FALSE, value |-> Num(Truncate(value.float[1], value.float[2]))]
    ELSE IF IsNonFinite(value) THEN [raised |-> TRUE, value |-> NULL]
    ELSE IF IsText(value) THEN
        LET v == Normalize(value.text)
            n == FirstNumber(v)
        IN  IF n = <<>> THEN [raised |-> FALSE, value |-> NULL]
            ELSE IF ~FloatOk(n) THEN [raised |-> TRUE, value |-> NULL]
            ELSE IF Contains(v, MarkerMln) \/ Contains(v, MarkerMillion)
                 THEN [raised |-> FALSE, value |-> Num(Times(n, Million))]
            ELSE IF Contains(v, MarkerTys) \/ Contains(v, MarkerTysyach)
                 THEN [raised |-> FALSE, value |-> Num(Times(n, Thousand))]
            ELSE IF Mantissa(n, 0) < SmallNumber * Scale(n)
                 THEN [raised |-> FALSE, value |-> Num(Times(n, Million))]
            ELSE [raised |-> FALSE, value |-> Num(Times(n, 1))]
    ELSE [raised |-> FALSE, value |-> NULL]

(***************************************************************************)
(* _extract_slots, the merge loop (agent.py 134-140).  extracted is the    *)
(* parsed JSON object as the sequence of its <<key, value>> items in       *)
(* document order.  A ValueError of _parse_budget leaves the loop with     *)
(* the items before it merged (it is caught at line 151).                  *)
(***************************************************************************)
BudgetKeys == {"budget_min", "budget_max"}

\* the loop body without the test of line 136
MergeItem_WritesNull(data, key, value) ==
    IF key \in BudgetKeys /\ IsText(value)
    THEN LET r == _parse_budget(value)
         IN  [raised |-> r.raised,
              data |-> IF r.raised THEN data ELSE Put(data, key, r.value)]
    ELSE [raised |-> FALSE, data |-> Put(data, key, value)]

\* one iteration of the loop body, lines 136-140
MergeItem(data, key, value) ==
    IF IsNull(value) THEN [raised |-> FALSE, data |-> data]
    ELSE IF key \in BudgetKeys /\ IsText(value)
    THEN LET r == _parse_budget(value)
         IN  [raised |-> r.raised,
              data |-> IF r.raised THEN data ELSE Put(data, key, r.value)]
    ELSE [raised |-> FALSE, data |-> Put(data, key, value)]

RECURSIVE MergeItems(_, _)
MergeItems(data, items) ==
    IF items = <<>> THEN [raised |-> FALSE, data |-> data]
    ELSE LET r == MergeItem(data, Head(items)[1], Head(items)[2])
         IN  IF r.raised THEN r ELSE MergeItems(r.data, Tail(items))

\* lines 155-158 with a test for falsy values in place of "is None"
MissingSlots_Falsy(data) == SelectSeq(SLOTS, LAMBDA slot : ~Truthy(Get(data, slot)))

\* lines 155-158
MissingSlots(data) == SelectSeq(SLOTS, LAMBDA slot : IsNull(Get(data, slot)))

(***************************************************************************)
(* _determine_stage (agent.py 190-231) on a ConversationState st.  The     *)
(* result is [raised, state]: .lower() of a timeline that is no str        *)
(* raises AttributeError at line 212, before any field is assigned.        *)
(***************************************************************************)
has_basic_info(data) ==
    \/ Truthy(Get(data, "car_brand"))
    \/ Truthy(Get(data, "budget_max"))
    \/ Truthy(Get(data, "body_type"))

has_qualification_info(data) ==
    \A i \in DOMAIN REQUIRED_FOR_QUALIFICATION :
        Truthy(Get(data, REQUIRED_FOR_QUALIFICATION[i]))

has_contact_info(data) ==
    \A i \in DOMAIN REQUIRED_FOR_CLOSING :
        Truthy(Get(data, REQUIRED_FOR_CLOSING[i]))

\* lines 211-219 with a second test of the budget alone
Qualify_BudgetOnly(data) ==
    LET budget == GetOr(data, "budget_max", Num(0))
        timeline == Lower(GetOr(data, "timeline", Text(<<>>)).text)
        AtLeast(n) == IsNum(budget) /\ budget.num >= n
    IN  IF AtLeast(HotBudget) \/ Contains(timeline, MarkerUrgent)
                              \/ Contains(timeline, MarkerFast)
        THEN "hot"
        ELSE IF AtLeast(WarmBudget)
        THEN "warm"
        ELSE "cold"

\* lines 211-219; budget is truthy here, hence a number: an int, or the
\* float nan of a JSON NaN, which every comparison answers with False
Qualify(data) ==
    LET budget == GetOr(data, "budget_max", Num(0))
        timeline == Lower(GetOr(data, "timeline", Text(<<>>)).text)
        AtLeast(n) == IsNum(budget) /\ budget.num >= n
    IN  IF AtLeast(HotBudget) \/ Contains(timeline, MarkerUrgent)
                              \/ Contains(timeline, MarkerFast)
        THEN "hot"
        ELSE IF AtLeast(WarmBudget) \/ has_basic_info(data)
        THEN "warm"
        ELSE "cold"

\* lines 222-229
StageOf(data) ==
    IF ~has_basic_info(data) THEN "discovery"
    ELSE IF ~has_qualification_info(data) THEN "qualification"
    ELSE IF ~has_contact_info(data) THEN "closing"
    ELSE "completed"

_determine_stage(st) ==
    LET data == st.extracted_data
        qualifies == has_contact_info(data) /\ has_qualification_info(data)
    IN  IF qualifies /\ ~IsText(GetOr(data, "timeline", Text(<<>>)))
        THEN [raised |-> TRUE, state |-> st]
        ELSE [raised |-> FALSE,
              state |-> [st EXCEPT
                  !.lead_qualification =
                      IF qualifies THEN Qualify(data) ELSE @,
                  !.current_stage = StageOf(data)]]

(***************************************************************************)
(* ErrorContext (errors.py 183-204) as a record [error_count,              *)
(* consecutive_errors]; last_error_time is a clock reading nothing reads.  *)
(***************************************************************************)
FallbackThreshold == 3

NewErrorContext == [error_count |-> 0, consecutive_errors |-> 0]

\* a failure that is counted but does not extend the streak
record_error_CountOnly(ec) == [ec EXCEPT !.error_count = @ + 1]

record_error(ec) ==
    [error_count |-> ec.error_count + 1,
     consecutive_errors |-> ec.consecutive_errors + 1]

\* a success that takes one failure off the streak
\* record_success that leaves the streak as it is
record_success_Keeps(ec) == ec

record_success_Decrements(ec) ==
    [ec EXCEPT !.consecutive_errors = IF @ > 0 THEN @ - 1 ELSE 0]

record_success(ec) == [ec EXCEPT !.consecutive_errors = 0]

\* a threshold that is off by one
should_use_fallback_Strict(ec) == ec.consecutive_errors > FallbackThreshold

should_use_fallback(ec) == ec.consecutive_errors >= FallbackThreshold

(***************************************************************************)
(* errors.py: the failure classes of the openai client, the taxonomy of    *)
(* handle_openai_error and the fallback replies.  A user-facing message    *)
(* is named by a tag, the text of an exception by <<"str(e)", class>>.     *)
(***************************************************************************)
TransientErrors == {"RateLimitError", "APIConnectionError", "APITimeoutError"}
OpenAIErrors == TransientErrors \cup {"AuthenticationError", "APIError", "Exception"}

\* isinstance(error, cls): in the openai client APITimeoutError derives from
\* APIConnectionError, and every class but Exception from APIError
IsInstance(error, cls) ==
    \/ error = cls
    \/ cls = "APIConnectionError" /\ error = "APITimeoutError"
    \/ cls = "APIError" /\ error # "Exception"

\* lines 98-125, the first matching branch
handle_openai_error(error) ==
    IF IsInstance(error, "RateLimitError")
    THEN [kind |-> "RateLimitExceeded", user_message |-> "msg:rate_limit",
          recoverable |-> TRUE]
    ELSE IF IsInstance(error, "APIConnectionError")
    THEN [kind |-> "AIConnectionError", user_message |-> "msg:connection",
          recoverable |-> TRUE]
    ELSE IF IsInstance(error, "APITimeoutError")
    THEN [kind |-> "AITimeoutError", user_message |-> "msg:timeout",
          recoverable |-> TRUE]
    ELSE IF IsInstance(error, "AuthenticationError")
    THEN [kind |-> "AIAuthError", user_message |-> "msg:configuration",
          recoverable |-> FALSE]
    ELSE IF IsInstance(error, "APIError")
    THEN [kind |-> "AIServiceError", user_message |-> "msg:request_failed",
          recoverable |-> TRUE]
    ELSE [kind |-> "AIServiceError", user_message |-> "msg:unexpected",
          recoverable |-> TRUE]

\* get_fallback_response("general"), lines 85-95
FallbackGeneral == "fallback:general"

\* str(e) of an exception that is no AIServiceError
RawText(error) == "str(e):" \o error

(***************************************************************************)
(* The inputs of the model                                                 *)
(***************************************************************************)
MaxTurns == 2        \* process_message calls of one bounded behaviour
MaxErrors == 4       \* cap of ErrorContext.error_count
MaxCalls == 6        \* record_error / record_success calls on a bare ErrorContext
MaxProcs == 2        \* turns that may overlap

Procs == 1..MaxProcs

TxtToyota == <<"T", "o", "y", "o", "t", "a">>
TxtSedan == <<"s", "e", "d", "a", "n">>
TxtKorea == <<"K", "o", "r", "e", "a">>
TxtIvan == <<"I", "v", "a", "n">>
TxtPhone == <<"+", "7", "9", "0", "0">>
TxtUrgent == <<"S", "r", "o", "c", "n", "o">>
TxtFaster == <<"p", "o", "b", "y", "s", "t", "r", "e", "e">>
TxtNoRush == <<"n", "e", " ", "s", "p", "e", "s", "u">>
TxtThreeMln == <<"3", " ", "m", "l", "n">>
TxtHalfMln == <<"5", "0", "0", " ", "t", "y", "s">>
TxtMany == <<"m", "n", "o", "g", "o">>
TxtDotted == <<"1", ".", "2", ".", "3">>
TxtMail == <<"a", "@", "b">>

\* the JSON objects the extraction oracle may answer with, as item sequences
ExtractionPayloads ==
    { << <<"car_brand", Text(TxtToyota)>>, <<"budget_max", Text(TxtThreeMln)>> >>,
      << <<"name", Text(TxtIvan)>>, <<"phone", Text(TxtPhone)>> >>,
      << <<"car_brand", NULL>>, <<"budget_max", Text(TxtMany)>> >>,
      << <<"car_brand", Text(<<>>)>>, <<"budget_max", Num(0)>> >>,
      << <<"timeline", Text(TxtUrgent)>>, <<"budget_max", Num(WarmBudget)>> >>,
      << <<"name", Text(TxtIvan)>>, <<"phone", Text(TxtPhone)>>,
         <<"timeline", Num(3)>>, <<"email", Text(TxtMail)>> >>,
      << <<"body_type", Text(TxtSedan)>>, <<"budget_min", Text(TxtDotted)>>,
         <<"country", Text(TxtKorea)>> >>,
      << <<"car_brand", NULL>>, <<"budget_max", NULL>>, <<"timeline", NULL>>,
         <<"name", NULL>>, <<"phone", NULL>> >>,
      << <<"budget_max", Text(TxtHalfMln)>> >> }

\* what the extraction oracle may answer with: the body is a JSON object, a
\* JSON array or no JSON at all, bare or wrapped in a code fence
ExtractionReplies ==
    {[fence |-> "none", body |-> "object", items |-> it] : it \in ExtractionPayloads}
    \cup {[fence |-> "json", body |-> "object", items |-> it] :
            it \in {<< <<"name", Text(TxtIvan)>>, <<"phone", Text(TxtPhone)>> >>}}
    \cup {[fence |-> "plain", body |-> "object", items |-> it] :
            it \in {<< <<"name", Text(TxtIvan)>>, <<"phone", Text(TxtPhone)>> >>}}
    \cup {[fence |-> "none", body |-> "malformed", items |-> <<>>],
          [fence |-> "none", body |-> "array", items |-> <<>>]}

\* lines 127-132: strip() and the two re.sub leave a bare reply and a
\* ```json fence parseable; a fence without the word json stays in front
\* of the payload and json.loads raises JSONDecodeError
ParsedBody(reply) == IF reply.fence = "plain" THEN "malformed" ELSE reply.body

(***************************************************************************)
(* The state                                                               *)
(***************************************************************************)
VARIABLES
    state,          \* p -> the ConversationState of the turn p is processing
    pc,             \* p -> where the turn is in process_message and the graph
    local,          \* p -> the local variables of process_message and the nodes
    error_context,  \* AutoImportAgent.error_context, one per agent
    db,             \* the leads and conversations tables
    outcome,        \* p -> the dict process_message returned last, or NoOutcome
    obs,            \* p -> what the turn did so far (history, for the properties)
    calls,          \* the record_error / record_success calls made on a bare ErrorContext
    oracle_event,   \* the result of the oracle call of the last step, if it made one
    turns,          \* process_message calls so far
    cfg,            \* the scenario: how many turns may overlap, which inputs occur
    retry,          \* a call under with_retry on its own: the wrapper's variables
    unit,           \* a call of _parse_budget on its own: argument and result
    streak_sessions, \* the sessions of the generations that failed since the
                    \* last one that succeeded (history, for the properties)
    reported        \* session -> the lead_status of its last two outcomes, for
                    \* the specification that follows them (history)

vars == <<state, pc, local, error_context, db, outcome, obs, calls,
          oracle_event, turns, cfg, retry, unit, streak_sessions, reported>>

NoOutcome == [returned |-> FALSE]

IdleState ==
    [session_id |-> <<>>, messages |-> <<>>, extracted_data |-> EmptyDict,
     current_stage |-> "discovery", missing_slots |-> SLOTS,
     lead_qualification |-> None, error |-> None]

IdleLocal ==
    [extracted_data |-> EmptyDict, attempt |-> 0, tool_calls |-> <<>>,
     tool_results |-> <<>>]

\* no call of _parse_budget made: parts says how the argument was composed
NoParts == [kind |-> "none", m |-> 0, scale |-> 1, marker |-> "none"]

IdleUnit ==
    [called |-> FALSE, arg |-> NULL, parts |-> NoParts,
     result |-> [raised |-> FALSE, value |-> NULL]]

NewObs ==
    [path |-> "none", gen_calls |-> 0, tools_run |-> 0, streak_before |-> 0,
     attempts |-> 0, delays |-> <<>>, data_before |-> EmptyDict,
     extracted |-> <<>>, merged |-> FALSE, initial_messages |-> <<>>,
     message |-> "none", session_arg |-> <<>>, db_access |-> 0,
     gen_attempts |-> 0, gen_error |-> None, saved |-> "none",
     requested |-> <<>>, reply |-> "none", extract_error |-> None]

\* the session ids a caller provides; <<>> stands for None and for ""
S1 == <<"s", "1">>
S2 == <<"s", "2">>

\* str(uuid.uuid4()) of the n-th call: 36 characters, distinct per call
Uuid4(n) ==
    [i \in 1..36 |->
        IF i \in {9, 14, 19, 24} THEN "-"
        ELSE IF i = 1 THEN CHOOSE c \in Digits : DigitVal(c) = n % 10
        ELSE IF i = 15 THEN "4" ELSE "a"]

SessionIdLen == 8

Histories ==
    {<<>>, <<[role |-> "user", content |-> "earlier question"],
             [role |-> "assistant", content |-> "earlier reply"]>>}

MessageKinds == {"empty", "blank", "text", "overlong"}

PromptForInput == "prompt_for_input"

IsBlank_EmptyOnly(message) == message = "empty"

\* line 447: not message or not message.strip()
IsBlank(message) == message \in {"empty", "blank"}

TypeOK ==
    /\ pc \in [Procs -> {"idle", "load", "extract", "stage", "generate",
                         "primary", "tools", "second", "save", "return",
                         "raised"}]
    /\ error_context.consecutive_errors \in 0..(FallbackThreshold + MaxProcs)
    /\ error_context.error_count \in 0..MaxErrors
    /\ turns \in 0..MaxTurns

(***************************************************************************)
(* Persistence: the leads table as session_id -> row, and the number of    *)
(* rows of the conversations table.                                        *)
(***************************************************************************)
LeadColumns == {"name", "phone", "car_brand", "car_model", "budget_min",
                "budget_max", "country", "timeline", "body_type"}

StringColumns == LeadColumns \ BudgetKeys

NewLead ==
    [c \in LeadColumns \cup {"qualification", "status"} |->
        IF c = "status" THEN Text(<<"n", "e", "w">>) ELSE NULL]

RECURSIVE DecimalText(_)
DecimalText(n) ==
    IF n < 10 THEN <<CHOOSE c \in Digits : DigitVal(c) = n>>
    ELSE DecimalText(n \div 10) \o <<CHOOSE c \in Digits : DigitVal(c) = n % 10>>

\* what a column gives back for a value stored in it: SQLite keeps a
\* number written to a String column as its decimal text, and binds the
\* float nan as NULL
Stored(column, v) ==
    IF "nan" \in DOMAIN v THEN NULL
    ELSE IF column \in StringColumns /\ IsNum(v) /\ v.num >= 0
    THEN Text(DecimalText(v.num)) ELSE v

\* a or b
Or(a, b) == IF Truthy(a) THEN a ELSE b

StatusQualified == Text(<<"q", "u", "a", "l", "i", "f", "i", "e", "d">>)
StatusInProgress == Text(<<"i", "n", "_", "p", "r", "o", "g", "r", "e", "s", "s">>)

QualText(q) ==
    CASE q = "hot" -> Text(<<"h", "o", "t">>)
      [] q = "warm" -> Text(<<"w", "a", "r", "m">>)
      [] q = "cold" -> Text(<<"c", "o", "l", "d">>)
      [] OTHER -> NULL

\* lines 399-411 on the row lead
UpdatedLead(lead, st) ==
    [c \in DOMAIN lead |->
        IF c \in LeadColumns
        THEN Stored(c, Or(Get(st.extracted_data, c), lead[c]))
        ELSE IF c = "qualification"
        THEN Or(QualText(st.lead_qualification), lead[c])
        ELSE IF st.current_stage = "completed" THEN StatusQualified
        ELSE StatusInProgress]

\* lines 471-483: the columns of the row that are not None
LoadedSlots(lead) ==
    [c \in {k \in LeadColumns : ~IsNull(lead[k])} |-> lead[c]]

(***************************************************************************)
(* process_message (agent.py 433-532), up to the call of the graph         *)
(***************************************************************************)
\* lines 489-497
InitialState(sid, history, content, extracted_data) ==
    [session_id |-> sid,
     messages |-> Append(history, [role |-> "user", content |-> content]),
     extracted_data |-> extracted_data,
     current_stage |-> "discovery",
     missing_slots |-> SLOTS,
     lead_qualification |-> None,
     error |-> None]

\* lines 448-454: the dict returned for an empty message has no error key
EmptyMessageOutcome(sid) ==
    [returned |-> TRUE,
     dict |-> [k \in {"response", "session_id", "extracted_data", "lead_status",
                      "qualification"} |->
        CASE k = "response" -> PromptForInput
          [] k = "session_id" -> sid
          [] k = "extracted_data" -> EmptyDict
          [] k = "lead_status" -> "discovery"
          [] k = "qualification" -> None]]

\* lines 504-511
FinalOutcome(st) ==
    [returned |-> TRUE,
     dict |-> [k \in {"response", "session_id", "extracted_data", "lead_status",
                      "qualification", "error"} |->
        CASE k = "response" -> st.messages[Len(st.messages)].content
          [] k = "session_id" -> st.session_id
          [] k = "extracted_data" -> st.extracted_data
          [] k = "lead_status" -> st.current_stage
          [] k = "qualification" -> st.lead_qualification
          [] k = "error" -> st.error]]

\* lines 523-532: an exception of a node that is no AIServiceError
ExceptionOutcome(sid, extracted_data, error) ==
    [returned |-> TRUE,
     dict |-> [k \in {"response", "session_id", "extracted_data", "lead_status",
                      "qualification", "error"} |->
        CASE k = "response" -> FallbackGeneral
          [] k = "session_id" -> sid
          [] k = "extracted_data" -> extracted_data
          [] k = "lead_status" -> "error"
          [] k = "qualification" -> None
          [] k = "error" -> RawText(error)]]

\* the outcome process_message returns in this step, if it returns one
Returns(p) == pc'[p] = "idle" /\ outcome'[p].returned

\* the history of the lead_status values returned for the sessions the
\* scenario follows: session -> <<the one before, the last one>>
Recorded(p) ==
    LET sid == outcome'[p].dict["session_id"]
        last == IF sid \in DOMAIN reported THEN reported[sid][2] ELSE "none"
    IN  Put(reported, sid, <<last, outcome'[p].dict["lead_status"]>>)

\* process_message from its call to the first oracle call: lines 441-497.
\* The read of the lead either gives the row, or no row, or fails (484).
Start(p) ==
    /\ p <= cfg.nprocs
    /\ pc[p] = "idle"
    /\ cfg.capped => turns < MaxTurns
    /\ \E message \in cfg.messages, history \in cfg.histories,
          session_id \in cfg.sessions, load_ok \in cfg.loads :
        LET sid == IF session_id = <<>>
                   THEN SubSeq(Uuid4(turns), 1, SessionIdLen)
                   ELSE session_id
            content == IF message = "overlong" THEN "message[:2000]..."
                       ELSE "message"
            extracted_data ==
                IF load_ok /\ sid \in DOMAIN db.leads
                THEN LoadedSlots(db.leads[sid]) ELSE EmptyDict
        IN  IF IsBlank(message)
            THEN /\ outcome' = [outcome EXCEPT ![p] = EmptyMessageOutcome(sid)]
                 /\ obs' = [obs EXCEPT ![p] =
                        [NewObs EXCEPT !.message = message,
                                       !.session_arg = session_id]]
                 /\ UNCHANGED <<state, pc, local>>
            ELSE /\ state' = [state EXCEPT ![p] =
                        InitialState(sid, history, content, extracted_data)]
                 /\ local' = [local EXCEPT ![p] =
                        [IdleLocal EXCEPT !.extracted_data = extracted_data]]
                 /\ pc' = [pc EXCEPT ![p] = "extract"]
                 /\ outcome' = [outcome EXCEPT ![p] = NoOutcome]
                 /\ obs' = [obs EXCEPT ![p] =
                        [NewObs EXCEPT !.initial_messages =
                            Append(history, [role |-> "user", content |-> content]),
                                       !.message = message,
                                       !.session_arg = session_id,
                                       !.db_access = 1]]
    /\ turns' = IF cfg.capped THEN turns + 1 ELSE turns
    /\ oracle_event' = "none"
    /\ UNCHANGED <<error_context, db, calls, cfg, retry, unit, streak_sessions>>
    /\ reported' = IF cfg.follow /\ Returns(p) THEN Recorded(p) ELSE reported

(***************************************************************************)
(* _call_llm under with_retry (agent.py 91-95, errors.py 128-180) and      *)
(* _extract_slots (agent.py 97-160).  One step is one attempt of the       *)
(* oracle call together with what follows it up to the next await.         *)
(***************************************************************************)
max_retries == 3
base_delay == 1
max_delay == 10

RECURSIVE Pow2(_)
Pow2(k) == IF k = 0 THEN 1 ELSE 2 * Pow2(k - 1)

Min(a, b) == IF a <= b THEN a ELSE b

BackoffDelay_Uncapped(base, cap, exponential_backoff, attempt) ==
    IF exponential_backoff THEN base * Pow2(attempt) ELSE base

\* line 156, and line 158 without exponential_backoff
BackoffDelay(base, cap, exponential_backoff, attempt) ==
    IF exponential_backoff THEN Min(base * Pow2(attempt), cap) ELSE base

\* the delay of _call_llm: with_retry(max_retries=3, base_delay=1.0)
Delay(attempt) == BackoffDelay(base_delay, max_delay, TRUE, attempt)

\* lines 151-165 with a test that lets the last attempt be retried too
Retried_OnceMore(error, attempt) ==
    /\ \E cls \in TransientErrors : IsInstance(error, cls)
    /\ attempt < max_retries

\* lines 151-165: the attempt is retried
Retried(error, attempt) ==
    /\ \E cls \in TransientErrors : IsInstance(error, cls)
    /\ attempt < max_retries - 1

(***************************************************************************)
(* with_retry (errors.py 128-180) around any call.  A record holds the     *)
(* decorator's arguments, the wrapper's attempt and last_error, and what   *)
(* the call did so far: its attempts, the delays slept, and how it ended.  *)
(***************************************************************************)
NoError == [kind |-> "none", user_message |-> "none", recoverable |-> TRUE]

NewRetry(n, base, cap, exponential_backoff) ==
    [max_retries |-> n, base_delay |-> base, max_delay |-> cap,
     exponential_backoff |-> exponential_backoff,
     attempt |-> 0, last_error |-> None,
     attempts |-> 0, delays |-> <<>>, results |-> <<>>,
     status |-> "running", raised |-> NoError, raises |-> 0]

\* the wrapper of _call_llm before any call
IdleRetry == NewRetry(max_retries, base_delay, max_delay, TRUE)

IsTransient_RateLimitOnly(error) == IsInstance(error, "RateLimitError")

\* line 151: the classes the wrapper retries
IsTransient(error) == \E cls \in TransientErrors : IsInstance(error, cls)

\* line 150: the attempt returns, and so does the wrapper
AttemptReturns(r) ==
    [r EXCEPT !.attempts = @ + 1, !.results = Append(@, "ok"),
              !.status = "returned"]

\* lines 167, 170, 173: the wrapper raises handle_openai_error(e)
Raise(r, error) ==
    [r EXCEPT !.attempts = @ + 1, !.results = Append(@, error),
              !.status = "raised",
              !.raised = handle_openai_error(error), !.raises = @ + 1]

AttemptRaises_AnyClass(r, error) ==
    IF r.attempt < r.max_retries - 1
    THEN [r EXCEPT !.last_error = error,
                   !.attempts = @ + 1,
                   !.results = Append(@, error),
                   !.delays = Append(@, BackoffDelay(r.base_delay, r.max_delay,
                                                    r.exponential_backoff, r.attempt)),
                   !.attempt = @ + 1]
    ELSE Raise(r, error)

\* lines 151-173: the attempt raises error
AttemptRaises(r, error) ==
    IF IsTransient(error)
    THEN LET seen == [r EXCEPT !.last_error = error]
         IN  IF r.attempt < r.max_retries - 1
             THEN [seen EXCEPT
                     !.attempts = @ + 1,
                     !.results = Append(@, error),
                     !.delays = Append(@, BackoffDelay(r.base_delay, r.max_delay,
                                                      r.exponential_backoff, r.attempt)),
                     !.attempt = @ + 1]
             ELSE Raise(seen, error)
    ELSE Raise(r, error)

\* lines 154-160 of _extract_slots
WithMissingSlots(st) ==
    [st EXCEPT !.missing_slots = MissingSlots(st.extracted_data)]

\* lines 127-142 with a handler of line 148 that reports the parse error
Extracted_ReportsParseError(st, reply) ==
    IF ParsedBody(reply) = "object"
    THEN [st EXCEPT !.extracted_data = MergeItems(@, reply.items).data]
    ELSE IF ParsedBody(reply) = "malformed"
    THEN [st EXCEPT !.error = "JSON parsing error"]
    ELSE st

\* lines 144-147 without the assignment of line 147
ExtractionFailed_Silent(st, error) == st

\* lines 144-147: the AIServiceError with_retry raised for the error
ExtractionFailed(st, error) ==
    [st EXCEPT !.error = handle_openai_error(error).user_message]

\* lines 144-147 with the record_error() call the handlers of
\* _generate_response make
HandlerContext_Records(ec) == record_error(ec)

\* lines 144-147: the handler leaves self.error_context alone
HandlerContext(ec) == ec

\* lines 127-142 on the reply of the oracle
Extracted(st, reply) ==
    IF ParsedBody(reply) = "object"
    THEN [st EXCEPT !.extracted_data = MergeItems(@, reply.items).data]
    ELSE st

ExtractReply(p) ==
    /\ pc[p] = "extract"
    /\ \E reply \in cfg.replies :
        /\ state' = [state EXCEPT ![p] = WithMissingSlots(Extracted(@, reply))]
        /\ obs' = [obs EXCEPT ![p].attempts = @ + 1,
                              ![p].data_before = state[p].extracted_data,
                              ![p].extracted =
                                  IF ParsedBody(reply) = "object"
                                  THEN reply.items ELSE <<>>,
                              ![p].merged = (ParsedBody(reply) = "object"),
                              ![p].reply = ParsedBody(reply)]
    /\ pc' = [pc EXCEPT ![p] = "stage"]
    /\ oracle_event' = "ok"
    /\ UNCHANGED <<local, error_context, db, outcome, calls, turns, cfg, retry, unit, streak_sessions, reported>>

ExtractFailure(p) ==
    /\ pc[p] = "extract"
    /\ \E error \in cfg.errors :
        IF Retried(error, local[p].attempt)
        THEN /\ local' = [local EXCEPT ![p].attempt = @ + 1]
             /\ obs' = [obs EXCEPT ![p].attempts = @ + 1,
                                   ![p].delays = Append(@, Delay(local[p].attempt))]
             /\ UNCHANGED <<state, pc, error_context>>
        ELSE /\ state' = [state EXCEPT ![p] =
                    WithMissingSlots(ExtractionFailed(@, error))]
             /\ obs' = [obs EXCEPT ![p].attempts = @ + 1,
                                   ![p].data_before = state[p].extracted_data,
                                   ![p].reply = "failed",
                                   ![p].extract_error = error]
             /\ pc' = [pc EXCEPT ![p] = "stage"]
             /\ error_context' = HandlerContext(error_context)
             /\ UNCHANGED local
    /\ oracle_event' = "failed"
    /\ UNCHANGED <<db, outcome, calls, turns, cfg, retry, unit, streak_sessions, reported>>

(***************************************************************************)
(* the determine_stage node; an exception of the node ends the graph and   *)
(* process_message returns at lines 523-532 with its own extracted_data:   *)
(* the dict it loaded, which is the dict the nodes merged into if the      *)
(* graph hands the nodes the caller's dict and a copy of it otherwise      *)
(***************************************************************************)
DetermineStage(p) ==
    /\ pc[p] = "stage"
    /\ LET r == _determine_stage(state[p])
       IN  IF r.raised
           THEN /\ \E extracted_data \in {state[p].extracted_data,
                                          local[p].extracted_data} :
                       outcome' = [outcome EXCEPT ![p] =
                           ExceptionOutcome(state[p].session_id, extracted_data,
                                            "AttributeError")]
                /\ pc' = [pc EXCEPT ![p] = "idle"]
                /\ UNCHANGED state
           ELSE /\ state' = [state EXCEPT ![p] = r.state]
                /\ pc' = [pc EXCEPT ![p] = "generate"]
                /\ UNCHANGED outcome
    /\ oracle_event' = "none"
    /\ UNCHANGED <<local, error_context, db, obs, calls, turns, cfg, retry, unit, streak_sessions>>
    /\ reported' = IF cfg.follow /\ Returns(p) THEN Recorded(p) ELSE reported

(***************************************************************************)
(* _generate_response (agent.py 233-353) and _execute_tool (355-381)       *)
(***************************************************************************)
AIServiceErrors == {"AIServiceError", "RateLimitExceeded", "AIConnectionError",
                    "AITimeoutError", "AIAuthError", "DatabaseError"}

ToolNames == {"search_cars", "get_available_brands", "get_price_range",
              "make_coffee"}
KnownTools == {"search_cars", "get_available_brands", "get_price_range"}

AssistantMessage(content) == [role |-> "assistant", content |-> content]

\* the reply written over the last message in place of an append
AppendReply_Overwrites(st, content) ==
    [st EXCEPT !.messages[Len(st.messages)] = AssistantMessage(content)]

\* the append of lines 238-241, 328-331, 337-340 and 346-349
AppendReply(st, content) ==
    [st EXCEPT !.messages = Append(@, AssistantMessage(content))]

\* lines 237-243 and, on the normal path, the primary call of line 302:
\* nothing is awaited between the check and the call
GenerateStart(p) ==
    /\ pc[p] = "generate"
    /\ IF should_use_fallback(error_context)
       THEN /\ state' = [state EXCEPT ![p] = AppendReply(@, FallbackGeneral)]
            /\ obs' = [obs EXCEPT ![p].path = "fallback",
                                  ![p].streak_before = error_context.consecutive_errors]
            /\ pc' = [pc EXCEPT ![p] = "save"]
       ELSE /\ obs' = [obs EXCEPT ![p].path = "normal",
                                  ![p].streak_before = error_context.consecutive_errors,
                                  ![p].gen_calls = @ + 1,
                                  ![p].gen_attempts = 1]
            /\ pc' = [pc EXCEPT ![p] = "primary"]
            /\ UNCHANGED state
    /\ oracle_event' = "none"
    /\ UNCHANGED <<local, error_context, db, outcome, calls, turns, cfg, retry, unit, streak_sessions, reported>>

\* lines 325-331
GenerationSucceeded(p, content) ==
    /\ error_context' = record_success(error_context)
    /\ state' = [state EXCEPT ![p] = AppendReply(@, content)]
    /\ obs' = [obs EXCEPT ![p].path = "succeeded"]
    /\ pc' = [pc EXCEPT ![p] = "save"]
    /\ oracle_event' = "ok"
    /\ streak_sessions' = <<>>
    /\ UNCHANGED local

\* lines 333-351: the reply and the error field by the class of the exception
FailureReply(error) ==
    IF error \in AIServiceErrors THEN handle_openai_error(error).user_message
    ELSE FallbackGeneral

FailureError(error) ==
    IF error \in AIServiceErrors THEN handle_openai_error(error).user_message
    ELSE RawText(error)

GenerationFailed(p, error) ==
    /\ error_context.error_count < MaxErrors
    /\ error_context' = record_error(error_context)
    /\ state' = [state EXCEPT ![p] =
            [AppendReply(@, FailureReply(error)) EXCEPT !.error = FailureError(error)]]
    /\ obs' = [obs EXCEPT ![p].path = "failed", ![p].gen_error = error]
    /\ pc' = [pc EXCEPT ![p] = "save"]
    /\ oracle_event' = "failed"
    /\ streak_sessions' = Append(streak_sessions, state[p].session_id)
    /\ UNCHANGED local

\* the primary call answers with content and no tool request
PrimaryReply(p) ==
    /\ pc[p] = "primary"
    /\ GenerationSucceeded(p, "reply")
    /\ UNCHANGED <<db, outcome, calls, turns, cfg, retry, unit, reported>>

\* response.tool_calls as LangChain hands it over: one dict with name and id
\* per request, in the order of the requests
ToolCalls(names) == [i \in 1..Len(names) |-> [name |-> names[i], id |-> i]]

\* the primary call answers with tool requests, lines 305-309
PrimaryToolCalls(p) ==
    /\ pc[p] = "primary"
    /\ \E tool_calls \in cfg.tools :
        /\ local' = [local EXCEPT ![p].tool_calls = tool_calls]
        /\ obs' = [obs EXCEPT ![p].requested = tool_calls]
    /\ pc' = [pc EXCEPT ![p] = "tools"]
    /\ oracle_event' = "ok"
    /\ UNCHANGED <<state, error_context, db, outcome, calls, turns, cfg, retry, unit, streak_sessions, reported>>

\* ainvoke is called without with_retry: its exception is the client's own
PrimaryFailure(p) ==
    /\ pc[p] = "primary"
    /\ \E error \in cfg.errors : GenerationFailed(p, error)
    /\ UNCHANGED <<db, outcome, calls, turns, cfg, retry, unit, reported>>

\* _execute_tool with the handler of lines 379-381 left out
ToolResult_Raises(tool_name, raises) ==
    IF tool_name \notin KnownTools
    THEN [raised |-> FALSE, content |-> <<"unknown tool", tool_name>>]
    ELSE IF raises THEN [raised |-> TRUE, content |-> <<>>]
    ELSE [raised |-> FALSE, content |-> <<"tool result", tool_name>>]

\* _execute_tool, lines 357-381: what the call does for a tool that raises
\* or does not; content is the text it returns
ToolResult(tool_name, raises) ==
    IF tool_name \notin KnownTools
    THEN [raised |-> FALSE, content |-> <<"unknown tool", tool_name>>]
    ELSE IF raises
    THEN [raised |-> FALSE, content |-> <<"tool failed", tool_name>>]
    ELSE [raised |-> FALSE, content |-> <<"tool result", tool_name>>]

\* the for loop of line 312 takes the requests from the last one
NextCall_Last(tool_calls) == tool_calls[Len(tool_calls)]

\* the request the for loop of line 312 takes next
NextCall(tool_calls) == Head(tool_calls)

\* lines 314-317
ToolMessage(content, tool_call_id) ==
    [content |-> content, tool_call_id |-> tool_call_id]

\* one iteration of the loop of lines 312-317; after the last one the
\* second call of line 320 is made.  An exception leaving _execute_tool
\* would be caught at line 343.
ExecuteTool(p) ==
    /\ pc[p] = "tools"
    /\ \E raises \in BOOLEAN :
        LET tool_call == NextCall(local[p].tool_calls)
            r == ToolResult(tool_call.name, raises)
        IN  IF r.raised
            THEN GenerationFailed(p, "Exception")
            ELSE /\ local' = [local EXCEPT
                        ![p].tool_results =
                            Append(@, ToolMessage(r.content, tool_call.id)),
                        ![p].tool_calls = Tail(@)]
                 /\ IF Len(local[p].tool_calls) = 1
                    THEN /\ pc' = [pc EXCEPT ![p] = "second"]
                         /\ obs' = [obs EXCEPT ![p].tools_run = @ + 1,
                                               ![p].gen_calls = @ + 1,
                                               ![p].gen_attempts = 1]
                    ELSE /\ obs' = [obs EXCEPT ![p].tools_run = @ + 1]
                         /\ UNCHANGED pc
                 /\ oracle_event' = "none"
                 /\ UNCHANGED <<state, error_context, streak_sessions, reported>>
    /\ UNCHANGED <<db, outcome, calls, turns, cfg, retry, unit, reported>>

\* lines 320-321: the content of the second response is the reply
SecondReply(p) ==
    /\ pc[p] = "second"
    /\ GenerationSucceeded(p, "final reply")
    /\ UNCHANGED <<db, outcome, calls, turns, cfg, retry, unit, reported>>

SecondFailure(p) ==
    /\ pc[p] = "second"
    /\ \E error \in cfg.errors : GenerationFailed(p, error)
    /\ UNCHANGED <<db, outcome, calls, turns, cfg, retry, unit, reported>>

(***************************************************************************)
(* _save_to_db (agent.py 383-431) and the return of process_message        *)
(***************************************************************************)
MaxRows == 2 * MaxTurns

\* lines 390-421: the session's pending changes, the lead found or added
\* and updated, and one row per message of state["messages"][-2:]
Staged(d, st) ==
    LET sid == st.session_id
        lead == IF sid \in DOMAIN d.leads THEN d.leads[sid] ELSE NewLead
    IN  [leads |-> Put(d.leads, sid, UpdatedLead(lead, st)),
         conversations |-> d.conversations + Min(2, Len(st.messages))]

Commit_KeepsLead(d, staged, ok) ==
    IF ok THEN staged ELSE [d EXCEPT !.leads = staged.leads]

\* line 423 and get_db (database.py 112-121): the pending changes are
\* committed in one transaction, or an exception rolls all of them back
Commit(d, staged, ok) == IF ok THEN staged ELSE d

AfterSave_SetsError(st, ok) ==
    IF ok THEN st ELSE [st EXCEPT !.error = "Database save error"]

\* lines 426-431: the state _save_to_db returns, whether it saved or not
AfterSave(st, ok) == st

SaveToDb(p) ==
    /\ pc[p] = "save"
    /\ \E committed \in cfg.commits :
        LET staged == Staged(db, state[p])
            ok == committed /\ staged.conversations <= MaxRows
        IN  /\ db' = Commit(db, staged, ok)
            /\ outcome' = [outcome EXCEPT ![p] = FinalOutcome(AfterSave(state[p], ok))]
            /\ obs' = [obs EXCEPT ![p].db_access = @ + 1,
                                  ![p].saved = IF ok THEN "committed" ELSE "failed"]
    /\ pc' = [pc EXCEPT ![p] = "idle"]
    /\ oracle_event' = "none"
    /\ UNCHANGED <<state, local, error_context, calls, turns, cfg, retry, unit, streak_sessions>>
    /\ reported' = IF cfg.follow /\ Returns(p) THEN Recorded(p) ELSE reported

(***************************************************************************)
(* An ErrorContext used on its own: any sequence of calls                  *)
(***************************************************************************)
RecordError ==
    /\ Len(calls) < MaxCalls
    /\ error_context' = record_error(error_context)
    /\ calls' = Append(calls, "record_error")
    /\ UNCHANGED <<state, pc, local, db, outcome, obs, oracle_event, turns, cfg, retry, unit, streak_sessions, reported>>

RecordSuccess ==
    /\ Len(calls) < MaxCalls
    /\ error_context' = record_success(error_context)
    /\ calls' = Append(calls, "record_success")
    /\ UNCHANGED <<state, pc, local, db, outcome, obs, oracle_event, turns, cfg, retry, unit, streak_sessions, reported>>

(***************************************************************************)
(* A call under with_retry used on its own: each attempt of the wrapped    *)
(* call returns or raises one of the failure classes                       *)
(***************************************************************************)
MaxRetries == 4      \* the largest max_retries a wrapped call is given

RetryAttemptReturns ==
    /\ retry.status = "running"
    /\ retry' = AttemptReturns(retry)
    /\ UNCHANGED <<state, pc, local, error_context, db, outcome, obs, calls,
                   oracle_event, turns, cfg, unit, streak_sessions, reported>>

RetryAttemptRaises ==
    /\ retry.status = "running"
    /\ \E error \in OpenAIErrors : retry' = AttemptRaises(retry, error)
    /\ UNCHANGED <<state, pc, local, error_context, db, outcome, obs, calls,
                   oracle_event, turns, cfg, unit, streak_sessions, reported>>

(***************************************************************************)
(* The specifications                                                      *)
(***************************************************************************)
InitUnit(scenario, r, u) ==
    /\ state = [p \in Procs |-> IdleState]
    /\ pc = [p \in Procs |-> "idle"]
    /\ local = [p \in Procs |-> IdleLocal]
    /\ error_context = NewErrorContext
    /\ db = [leads |-> EmptyDict, conversations |-> 0]
    /\ outcome = [p \in Procs |-> NoOutcome]
    /\ obs = [p \in Procs |-> NewObs]
    /\ calls = <<>>
    /\ oracle_event = "none"
    /\ turns = 0
    /\ cfg = scenario
    /\ retry = r
    /\ unit = u
    /\ streak_sessions = <<>>
    /\ reported = EmptyDict

InitAll(scenario, r) == InitUnit(scenario, r, IdleUnit)

InitWith(scenario) == InitAll(scenario, IdleRetry)

Turn(p) ==
    \/ Start(p)
    \/ ExtractReply(p)
    \/ ExtractFailure(p)
    \/ DetermineStage(p)
    \/ GenerateStart(p)
    \/ PrimaryReply(p)
    \/ PrimaryToolCalls(p)
    \/ PrimaryFailure(p)
    \/ ExecuteTool(p)
    \/ SecondReply(p)
    \/ SecondFailure(p)
    \/ SaveToDb(p)

Next == \E p \in Procs : Turn(p)

\* one agent processing up to MaxTurns messages of any sessions, one turn
\* at a time
Init ==
    InitWith([nprocs |-> 1, capped |-> TRUE, follow |-> FALSE,
              sessions |-> {<<>>, S1},
              messages |-> {"empty", "blank", "text"},
              histories |-> {<<>>},
              loads |-> BOOLEAN,
              replies |-> ExtractionReplies,
              errors |-> {"APITimeoutError", "AuthenticationError"},
              tools |-> {ToolCalls(<<"make_coffee", "search_cars">>)},
              commits |-> BOOLEAN])

Spec == Init /\ [][Next]_vars

\* an ErrorContext alone, under any sequence of its two recording calls
NextErrorContext == RecordError \/ RecordSuccess

SpecErrorContext == Init /\ [][NextErrorContext]_vars

\* _determine_stage alone, called on any ConversationState: the slots the
\* classifier reads take every kind of value the merge can leave in them
Absent == [absent |-> TRUE]

DictOf(f) == [k \in {x \in DOMAIN f : f[x] # Absent} |-> f[k]]

StageInputs ==
    {DictOf([k \in {"car_brand", "budget_max", "body_type", "name", "phone",
                    "timeline"} |->
                CASE k = "car_brand" -> brand
                  [] k = "budget_max" -> budget
                  [] k = "body_type" -> body
                  [] k = "name" -> name
                  [] k = "phone" -> phone
                  [] k = "timeline" -> timeline]) :
        brand \in {Absent, Text(<<>>), Text(TxtToyota)},
        budget \in {Absent, NULL, Num(0), Num(500000), Num(WarmBudget - 1),
                    Num(WarmBudget), Num(HotBudget - 1), Num(HotBudget)},
        body \in {Absent, Text(TxtSedan)},
        name \in {Absent, Text(<<>>), Text(TxtIvan)},
        phone \in {Absent, Text(TxtPhone)},
        timeline \in {Absent, Text(<<>>), Text(TxtUrgent), Text(TxtFaster),
                      Text(TxtNoRush), Num(3)}}

InitStage ==
    \E data \in StageInputs, stage \in {"discovery", "completed"},
       qualification \in {None, "hot", "warm", "cold"} :
        /\ state = [p \in Procs |->
                IF p = 1
                THEN [IdleState EXCEPT !.session_id = S1,
                                       !.messages = <<[role |-> "user", content |-> "message"]>>,
                                       !.extracted_data = data,
                                       !.missing_slots = MissingSlots(data),
                                       !.current_stage = stage,
                                       !.lead_qualification = qualification]
                ELSE IdleState]
        /\ pc = [p \in Procs |-> IF p = 1 THEN "stage" ELSE "idle"]
        /\ local = [p \in Procs |-> IdleLocal]
        /\ error_context = NewErrorContext
        /\ db = [leads |-> EmptyDict, conversations |-> 0]
        /\ outcome = [p \in Procs |-> NoOutcome]
        /\ obs = [p \in Procs |-> NewObs]
        /\ calls = <<>>
        /\ oracle_event = "none"
        /\ turns = 0
        /\ cfg = [nprocs |-> 1, capped |-> TRUE, follow |-> FALSE, sessions |-> {S1},
                  messages |-> {"text"}, histories |-> {<<>>}, loads |-> {TRUE},
                  replies |-> {}, errors |-> {}, tools |-> {}, commits |-> {TRUE}]
        /\ retry = IdleRetry
        /\ unit = IdleUnit
        /\ streak_sessions = <<>>
        /\ reported = EmptyDict

NextStage == \E p \in Procs : DetermineStage(p)

SpecStage == InitStage /\ [][NextStage]_vars

\* one agent serving one session for as long as messages come, with an
\* oracle that may fail: every step that can be taken eventually is
InitOutage ==
    InitWith([nprocs |-> 1, capped |-> FALSE, follow |-> FALSE,
              sessions |-> {S1},
              messages |-> {"text"},
              histories |-> Histories,
              loads |-> BOOLEAN,
              replies |-> {[fence |-> "none", body |-> "object",
                            items |-> << <<"name", Text(TxtIvan)>>,
                                         <<"phone", Text(TxtPhone)>> >>],
                           [fence |-> "none", body |-> "malformed", items |-> <<>>]},
              errors |-> {"APITimeoutError"},
              tools |-> {ToolCalls(<<"search_cars", "get_price_range">>)},
              commits |-> BOOLEAN])

SpecOutage == InitOutage /\ [][Next]_vars /\ WF_vars(Next)

\* a call under with_retry alone, for every max_retries from 1 to MaxRetries
\* and delays that do and do not reach max_delay
NoTurns ==
    [nprocs |-> 0, capped |-> TRUE, follow |-> FALSE, sessions |-> {}, messages |-> {},
     histories |-> {}, loads |-> {}, replies |-> {}, errors |-> {},
     tools |-> {}, commits |-> {}]

InitRetry ==
    \E n \in 1..MaxRetries, base \in {1, 2}, cap \in {3, 10},
       exponential_backoff \in BOOLEAN :
        InitAll(NoTurns, NewRetry(n, base, cap, exponential_backoff))

NextRetry == RetryAttemptReturns \/ RetryAttemptRaises

SpecRetry == InitRetry /\ [][NextRetry]_vars

\* one agent whose generation oracle asks for tools: known and unknown
\* ones, one or several per request, each of which may raise
MalformedReply == [fence |-> "none", body |-> "malformed", items |-> <<>>]

InitTools ==
    InitWith([nprocs |-> 1, capped |-> TRUE, follow |-> FALSE,
              sessions |-> {S1},
              messages |-> {"text"},
              histories |-> {<<>>},
              loads |-> {FALSE},
              replies |-> {MalformedReply},
              errors |-> {"APITimeoutError"},
              tools |-> {ToolCalls(<<"search_cars", "make_coffee", "get_price_range">>),
                         ToolCalls(<<"make_coffee", "search_cars">>),
                         ToolCalls(<<"get_available_brands">>)},
              commits |-> {TRUE}])

SpecTools == InitTools /\ [][Next]_vars

\* _parse_budget alone, called once on any of: numeric values; texts made of
\* an optional lead-in, a numeral and an optional magnitude word; values and
\* texts no amount can be read from.  A numeral is its text and its value
\* m / scale.
Numeral(text, m, scale) == [text |-> text, m |-> m, scale |-> scale]

SmallNumerals ==
    {Numeral(<<"2">>, 2, 1),
     Numeral(<<"2", ".", "5">>, 25, 10),
     Numeral(<<"2", ",", "5">>, 25, 10),
     Numeral(<<"3", ".", "5">>, 35, 10),
     Numeral(<<"4", ".", "1">>, 41, 10),
     Numeral(<<"8", ".", "2">>, 82, 10),
     Numeral(<<"3", "2", ".", "3">>, 323, 10),
     Numeral(<<"0">>, 0, 1),
     Numeral(<<"5", ".">>, 5, 1),
     Numeral(<<"9", "9">>, 99, 1),
     Numeral(<<"9", "9", ".", "9">>, 999, 10),
     Numeral(<<"1", "0", "0">>, 100, 1),
     Numeral(<<"5", "0", "0">>, 500, 1),
     Numeral(<<"1", " ", "5", "0", "0">>, 1500, 1)}

\* numerals that are only used without a magnitude word
LargeNumerals ==
    {Numeral(<<"1", "5", "0", ".", "7">>, 1507, 10),
     Numeral(<<"2", "0", "0", "0", "0", "0", "0">>, 2000000, 1)}

LeadIns == {<<>>, <<"o", "k", "o", "l", "o", " ">>, <<"-">>}

Word(text, marker) == [text |-> text, marker |-> marker]

MagnitudeWords ==
    {Word(<<" ", "m", "l", "n">>, "million"),
     Word(<<"m", "l", "n">>, "million"),
     Word(<<" ", "M", "L", "N">>, "million"),
     Word(<<" ", "m", "i", "l", "l", "i", "o", "n", "a">>, "million"),
     Word(<<" ", "m", "l", "n", " ", "5", "0", "0", " ", "t", "y", "s">>, "million"),
     Word(<<" ", "t", "y", "s">>, "thousand"),
     Word(<<" ", "t", "y", "s", "q", "c">>, "thousand"),
     Word(<<" ", "t", "y", "s", ".", " ", "r", "u", "b">>, "thousand")}

NoWord == Word(<<>>, "none")

TextCall(lead, numeral, word) ==
    [IdleUnit EXCEPT
        !.arg = Text(lead \o numeral.text \o word.text),
        !.parts = [kind |-> "text", m |-> numeral.m, scale |-> numeral.scale,
                   marker |-> word.marker]]

NumericCall(value, m, scale) ==
    [IdleUnit EXCEPT
        !.arg = value,
        !.parts = [kind |-> "numeric", m |-> m, scale |-> scale, marker |-> "none"]]

TxtGrouped == <<"1", ",", "5", "0", "0", ",", "0", "0", "0">>
TxtEllipsis == <<".", ".", ".">>

BudgetCalls ==
    {TextCall(lead, numeral, word) :
        lead \in LeadIns, numeral \in SmallNumerals,
        word \in MagnitudeWords \cup {NoWord}}
    \cup {TextCall(lead, numeral, NoWord) :
            lead \in LeadIns, numeral \in LargeNumerals}
    \cup {NumericCall(Num(2000000), 2000000, 1), NumericCall(Num(0), 0, 1),
          NumericCall(Num(50), 50, 1), NumericCall(Num(-5), -5, 1),
          NumericCall(Float(25, 10), 25, 10), NumericCall(Float(-27, 10), -27, 10),
          NumericCall(Float(999, 10), 999, 10), NumericCall(Bool(TRUE), 1, 1)}
    \cup {[IdleUnit EXCEPT !.arg = value] :
            value \in {NULL, Other, Inf, NaN, Text(<<>>), Text(TxtMany),
                       Text(TxtDotted), Text(TxtGrouped), Text(TxtEllipsis)}}

InitBudget == \E u \in BudgetCalls : InitUnit(NoTurns, IdleRetry, u)

ParseBudget ==
    /\ ~unit.called
    /\ unit' = [unit EXCEPT !.called = TRUE, !.result = _parse_budget(unit.arg)]
    /\ UNCHANGED <<state, pc, local, error_context, db, outcome, obs, calls,
                   oracle_event, turns, cfg, retry, streak_sessions, reported>>

NextBudget == ParseBudget

SpecBudget == InitBudget /\ [][NextBudget]_vars

\* one agent serving one session whose lead is saved and loaded again, with
\* every reply of the extraction oracle and failures of both kinds
InitExtract ==
    InitWith([nprocs |-> 1, capped |-> TRUE, follow |-> FALSE,
              sessions |-> {S1},
              messages |-> {"text"},
              histories |-> {<<>>},
              loads |-> {TRUE},
              replies |-> ExtractionReplies,
              errors |-> {"APITimeoutError", "AuthenticationError"},
              tools |-> {ToolCalls(<<"get_price_range">>)},
              commits |-> {TRUE}])

SpecExtract == InitExtract /\ [][Next]_vars

\* one agent serving two sessions whose turns may overlap, for as long as
\* messages come, with a generation oracle that may fail
InitSessions ==
    InitWith([nprocs |-> 2, capped |-> FALSE, follow |-> FALSE,
              sessions |-> {S1, S2},
              messages |-> {"text"},
              histories |-> {<<>>},
              loads |-> {FALSE},
              replies |-> {MalformedReply},
              errors |-> {"AuthenticationError"},
              tools |-> {ToolCalls(<<"search_cars">>)},
              commits |-> {FALSE}])

SpecSessions == InitSessions /\ [][Next]_vars

\* one agent serving one session turn after turn, whose messages may be
\* empty and whose oracle, load and save may fail; the lead_status of the
\* outcomes process_message returns is recorded per session
StatusReplies ==
    {[fence |-> "none", body |-> "object", items |-> it] :
        it \in {<< <<"car_brand", Text(TxtToyota)>>, <<"budget_max", Text(TxtThreeMln)>> >>,
                << <<"name", Text(TxtIvan)>>, <<"phone", Text(TxtPhone)>> >>,
                << <<"car_brand", Text(<<>>)>>, <<"budget_max", Num(0)>> >>,
                << <<"budget_max", NaN>> >>}}
    \cup {MalformedReply}

InitStatus ==
    InitWith([nprocs |-> 1, capped |-> TRUE, follow |-> TRUE,
              sessions |-> {S1},
              messages |-> {"empty", "text"},
              histories |-> {<<>>},
              loads |-> BOOLEAN,
              replies |-> StatusReplies,
              errors |-> {"AuthenticationError"},
              tools |-> {ToolCalls(<<"get_available_brands">>)},
              commits |-> BOOLEAN])

SpecStatus == InitStatus /\ [][Next]_vars

(***************************************************************************)
(* Properties                                                              *)
(***************************************************************************)
\* every key a payload or a lead row can put into extracted_data
AllKeys == Range(SLOTS) \cup {"email"}

\* the value the JSON object gives for key k, None when it omits k
PayloadValue(items, k) ==
    IF \E i \in DOMAIN items : items[i][1] = k
    THEN items[CHOOSE i \in DOMAIN items : items[i][1] = k][2]
    ELSE NULL

\* a slot is present when it has a non-null value
Present(data, k) == ~IsNull(Get(data, k))

\* C1: once a slot of extracted_data has a non-null value, no later merge of
\* _extract_slots sets that slot to null: after the merge of a turn every
\* slot that was non-null before it is still non-null.
C1_MergeNeverNulls ==
    \A p \in Procs :
        obs[p].merged =>
            \A k \in AllKeys :
                Present(obs[p].data_before, k) => Present(state[p].extracted_data, k)

\* C2: a slot for which the extraction payload gives null, or which it
\* omits, keeps the value (or the absence) it had before the merge; so a
\* payload of nulls leaves extracted_data as it was.
C2_NullLeavesSlot ==
    \A p \in Procs :
        obs[p].merged =>
            \A k \in AllKeys :
                IsNull(PayloadValue(obs[p].extracted, k)) =>
                    /\ (k \in DOMAIN state[p].extracted_data)
                           = (k \in DOMAIN obs[p].data_before)
                    /\ Get(state[p].extracted_data, k) = Get(obs[p].data_before, k)

\* a payload whose fields are all null was merged into slots already known,
\* while another turn's payload named a known slot with null
C2_Witness ==
    \E p \in Procs :
        /\ obs[p].merged
        /\ Len(obs[p].extracted) >= 2
        /\ \A i \in DOMAIN obs[p].extracted : IsNull(obs[p].extracted[i][2])
        /\ \E i \in DOMAIN obs[p].extracted :
               Present(obs[p].data_before, obs[p].extracted[i][1])
        /\ state[p].extracted_data = obs[p].data_before

\* the stage rule as the specification states it, on presence
ClaimedStage(data) ==
    IF ~(Present(data, "car_brand") \/ Present(data, "budget_max")
            \/ Present(data, "body_type"))
    THEN "discovery"
    ELSE IF ~(Present(data, "car_brand") /\ Present(data, "budget_max"))
    THEN "qualification"
    ELSE IF ~(Present(data, "name") /\ Present(data, "phone"))
    THEN "closing"
    ELSE "completed"

\* C3: for every slot mapping _determine_stage sets current_stage to
\* discovery, qualification, closing or completed by the first rule that
\* matches, a slot being present when its value is non-null.
C3_StageByFirstMatch ==
    [][\A p \in Procs :
        (pc[p] = "stage" /\ pc'[p] # "stage") =>
            state'[p].current_stage = ClaimedStage(state[p].extracted_data)]_vars

\* the tier rule as the specification states it
ClaimedTier(data) ==
    LET timeline == Get(data, "timeline")
    IN  IF \/ Get(data, "budget_max").num >= 3000000
           \/ /\ IsText(timeline)
              /\ \/ Contains(Lower(timeline.text), MarkerUrgent)
                 \/ Contains(Lower(timeline.text), MarkerFast)
        THEN "hot"
        ELSE "warm"

\* C4: when car_brand, budget_max, name and phone are all present,
\* _determine_stage assigns hot for a budget_max of at least 3,000,000 or
\* an urgency marker in the timeline, and warm otherwise (has_basic_info
\* holds then).
C4_TierByThresholds ==
    [][\A p \in Procs :
        (/\ pc[p] = "stage" /\ pc'[p] # "stage"
         /\ \A k \in {"car_brand", "budget_max", "name", "phone"} :
                Present(state[p].extracted_data, k)) =>
            state'[p].lead_qualification = ClaimedTier(state[p].extracted_data)]_vars

\* the result of _determine_stage on these slots from a fresh state
FromFreshState(data) == _determine_stage([IdleState EXCEPT !.extracted_data = data])

\* C5: the stage and the tier _determine_stage leaves in the state depend
\* on extracted_data alone: they are what a call on the same slots leaves
\* from any other values of current_stage and lead_qualification.
C5_StageIsPure ==
    [][\A p \in Procs :
        (pc[p] = "stage" /\ pc'[p] = "generate") =>
            LET fresh == FromFreshState(state[p].extracted_data).state
            IN  /\ state'[p].current_stage = fresh.current_stage
                /\ state'[p].lead_qualification = fresh.lead_qualification]_vars

\* C6: in every outcome process_message returns, qualification is non-null
\* exactly when car_brand, budget_max, name and phone are all present in
\* the outcome's extracted_data, and exactly when lead_status is completed.
C6_QualificationIffCompleted ==
    \A p \in Procs :
        outcome[p].returned =>
            LET d == outcome[p].dict
                qualified == d["qualification"] # None
            IN  /\ qualified <=>
                     \A k \in {"car_brand", "budget_max", "name", "phone"} :
                         Present(d["extracted_data"], k)
                /\ qualified <=> d["lead_status"] = "completed"

\* the number of record_error calls since the last record_success
RECURSIVE Streak(_)
Streak(cs) ==
    IF cs = <<>> \/ cs[Len(cs)] = "record_success" THEN 0
    ELSE 1 + Streak(SubSeq(cs, 1, Len(cs) - 1))

\* C7: after any sequence of record_error and record_success calls,
\* should_use_fallback() is true exactly when at least 3 record_error calls
\* were made since the last record_success.
C7_FallbackIffStreak ==
    should_use_fallback(error_context) <=> Streak(calls) >= 3

\* three failures in a row, then one success: the fallback is off again
C7_Witness ==
    /\ Len(calls) >= 4
    /\ SubSeq(calls, Len(calls) - 3, Len(calls))
         = <<"record_error", "record_error", "record_error", "record_success">>
    /\ ~should_use_fallback(error_context)

\* C8: a _generate_response that starts with a streak of 3 or more makes no
\* generation call, runs no tool and appends exactly one assistant message,
\* the general fallback reply.
C8_FallbackSkipsGeneration ==
    \A p \in Procs :
        (obs[p].path # "none" /\ obs[p].streak_before >= 3) =>
            /\ obs[p].path = "fallback"
            /\ obs[p].gen_calls = 0
            /\ obs[p].tools_run = 0
            /\ state[p].messages =
                   Append(obs[p].initial_messages, AssistantMessage(FallbackGeneral))

C8_Witness ==
    \E p \in Procs :
        /\ obs[p].path = "fallback"
        /\ obs[p].streak_before >= 3
        /\ pc[p] = "save"

\* C9: once the streak has reached 3, if the oracle answers every later
\* call, the streak is reset to zero after finitely many turns: from every
\* state in fallback mode a state with streak 0 or a failed oracle call
\* follows.
C9_FallbackEnds ==
    [](should_use_fallback(error_context) =>
          <>(error_context.consecutive_errors = 0 \/ oracle_event = "failed"))

\* the replies a failed generation appends
ApologyReplies ==
    {FallbackGeneral} \cup {handle_openai_error(e).user_message : e \in OpenAIErrors}

\* C10: after a _generate_response on the normal path the streak is 0 if
\* generation succeeded; if a generation call failed the streak is one more
\* than it was, exactly one apology was appended and the error field is set.
C10_GenerationOutcome ==
    \A p \in Procs :
        /\ obs[p].path = "succeeded" => error_context.consecutive_errors = 0
        /\ obs[p].path = "failed" =>
            /\ error_context.consecutive_errors = obs[p].streak_before + 1
            /\ \E c \in ApologyReplies :
                   state[p].messages =
                       Append(obs[p].initial_messages, AssistantMessage(c))
            /\ state[p].error # None

\* the second generation call, after a tool round, failed at a streak of 2
C10_Witness ==
    \E p \in Procs :
        /\ obs[p].path = "failed"
        /\ obs[p].gen_calls = 2
        /\ obs[p].tools_run >= 1
        /\ obs[p].streak_before = 2

\* the failure classes with_retry is to retry, and the others
RetryableClasses == {"RateLimitError", "APIConnectionError", "APITimeoutError"}
NonRetryableClasses == {"AuthenticationError", "APIError", "Exception"}

\* the first n attempts of the call all failed with a retryable class
AllTransient(results, n) ==
    /\ Len(results) >= n
    /\ \A i \in 1..n : results[i] \in RetryableClasses

\* C11: under with_retry(max_retries = 3) a call that fails twice with a
\* transient class is attempted a third time, and if that attempt succeeds
\* the result is returned after exactly three attempts and two delays; a
\* call whose first failure is of a non-retryable class raises after
\* exactly one attempt and no delay.
C11_RetryThenReturn ==
    /\ (retry.max_retries = 3 /\ Len(retry.results) \in 1..2
            /\ AllTransient(retry.results, Len(retry.results))) =>
           /\ retry.status = "running"
           /\ Len(retry.delays) = Len(retry.results)
    /\ (retry.max_retries = 3 /\ AllTransient(retry.results, 2)
            /\ Len(retry.results) >= 3 /\ retry.results[3] = "ok") =>
           /\ retry.status = "returned"
           /\ retry.attempts = 3
           /\ Len(retry.delays) = 2
           /\ retry.raises = 0
    /\ (retry.results # <<>> /\ retry.results[1] \in NonRetryableClasses) =>
           /\ retry.status = "raised"
           /\ retry.attempts = 1
           /\ retry.delays = <<>>

\* two different transient failures, then the result
C11_Witness ==
    /\ retry.max_retries = 3
    /\ retry.results = <<"RateLimitError", "APITimeoutError", "ok">>
    /\ retry.status = "returned"

NotRetried(results, i) ==
    /\ Len(results) = i
    /\ retry.status = "raised"
    /\ retry.attempts = i
    /\ Len(retry.delays) = i - 1
    /\ retry.raises = 1

\* C13 as stated: an authentication failure or an unrecognized failure is
\* never retried, and propagates at once as a non-recoverable
\* AIServiceError.
C13_NeverRetriedNonRecoverable ==
    \A i \in DOMAIN retry.results :
        retry.results[i] \in NonRetryableClasses =>
            /\ NotRetried(retry.results, i)
            /\ retry.raised.recoverable = FALSE

\* C13, amended: an authentication failure or an unrecognized failure is
\* never retried: the attempt that meets it is the last, no delay follows,
\* and one AIServiceError is raised, non-recoverable for an authentication
\* failure and recoverable for an unrecognized one.
C13_NeverRetried ==
    \A i \in DOMAIN retry.results :
        retry.results[i] \in NonRetryableClasses =>
            /\ NotRetried(retry.results, i)
            /\ retry.raised.kind \in AIServiceErrors
            /\ retry.raised.recoverable = (retry.results[i] # "AuthenticationError")

\* an unrecognized failure on the first attempt, raised as recoverable
C13_Witness ==
    /\ retry.results = <<"Exception">>
    /\ retry.status = "raised"
    /\ retry.delays = <<>>
    /\ retry.raised.recoverable

\* C14: a timeout failure is classified as the timeout kind: a recoverable
\* AITimeoutError with the 'request took too long' message, not the
\* connection-failure kind.
C14_TimeoutKind ==
    (retry.status = "raised"
        /\ retry.results[Len(retry.results)] = "APITimeoutError") =>
            /\ retry.raised.kind = "AITimeoutError"
            /\ retry.raised.user_message = "msg:timeout"
            /\ retry.raised.recoverable

\* C15: every oracle call of a turn is under the bounded retry, the
\* generation calls included: a turn records a generation failure for a
\* transient failure only after max_retries attempts of the call.
C15_GenerationRetried ==
    \A p \in Procs :
        (obs[p].path = "failed" /\ obs[p].gen_error \in RetryableClasses) =>
            obs[p].gen_attempts = max_retries

\* the fields every outcome is to have
OutcomeFields == {"response", "session_id", "error"}

\* C16: every outcome process_message returns, for an empty message too
\* and under any failures of the oracle, the tools and the persistence,
\* has a response, a session_id and an error field.
C16_OutcomeHasFields ==
    \A p \in Procs :
        outcome[p].returned => OutcomeFields \subseteq DOMAIN outcome[p].dict

Stages == {"discovery", "qualification", "closing", "completed"}

\* C17: the lead_status of every outcome process_message returns is one
\* of discovery, qualification, closing, completed, also when the pipeline
\* fails as a whole and the degraded response is substituted.
C17_LeadStatusIsStage ==
    \A p \in Procs :
        outcome[p].returned => outcome[p].dict["lead_status"] \in Stages

\* C18: a process_message call with an empty or whitespace-only message
\* makes no oracle call and no persistence access, leaves the ErrorContext
\* and the tables as they were, and returns the prompt-for-input response
\* with the session id provided, or with the first 8 characters of a new
\* uuid if none was.
C18_EmptyMessage ==
    [][\A p \in Procs :
        (/\ pc[p] = "idle"
         /\ <<outcome[p], obs[p], turns>>' # <<outcome[p], obs[p], turns>>
         /\ obs'[p].message \in {"empty", "blank"}) =>
            /\ pc'[p] = "idle"
            /\ oracle_event' = "none"
            /\ obs'[p].attempts = 0 /\ obs'[p].gen_calls = 0
            /\ obs'[p].db_access = 0
            /\ db' = db
            /\ error_context' = error_context
            /\ outcome'[p].returned
            /\ outcome'[p].dict["response"] = PromptForInput
            /\ outcome'[p].dict["session_id"] =
                   IF obs'[p].session_arg # <<>> THEN obs'[p].session_arg
                   ELSE SubSeq(Uuid4(turns), 1, 8)
            /\ Len(outcome'[p].dict["session_id"]) =
                   IF obs'[p].session_arg # <<>> THEN Len(obs'[p].session_arg) ELSE 8]_vars

\* a whitespace-only message without a session id, after a turn that left
\* a lead in the table
C18_Witness ==
    \E p \in Procs :
        /\ obs[p].message = "blank"
        /\ obs[p].session_arg = <<>>
        /\ outcome[p].returned
        /\ outcome[p].dict["response"] = PromptForInput
        /\ Len(outcome[p].dict["session_id"]) = 8
        /\ DOMAIN db.leads # {}

\* C19: the outcome of a turn is the same whether _save_to_db saved or
\* failed: it is the outcome of the state the generation left, and a
\* failed save neither ends the turn with the exception outcome nor sets
\* the error field.
C19_SaveFailureAbsorbed ==
    \A p \in Procs :
        obs[p].saved # "none" =>
            /\ outcome[p].returned
            /\ outcome[p].dict = FinalOutcome(state[p]).dict
            /\ outcome[p].dict["error"] = state[p].error
            /\ outcome[p].dict["lead_status"] = state[p].current_stage
            /\ outcome[p].dict["response"] =
                   state[p].messages[Len(state[p].messages)].content

\* a save failed after a generation that succeeded: no error in the outcome
C19_Witness ==
    \E p \in Procs :
        /\ obs[p].saved = "failed"
        /\ obs[p].path = "succeeded"
        /\ outcome[p].returned
        /\ outcome[p].dict["error"] = None
        /\ outcome[p].dict["response"] = "reply"

\* C20: _save_to_db is all or nothing: a save that fails leaves the leads
\* and the conversations tables as they were; a save that succeeds leaves
\* the updated lead and the two conversation rows of the turn.
C20_SaveAllOrNothing ==
    [][\A p \in Procs :
        (pc[p] = "save" /\ pc'[p] = "idle") =>
            LET sid == state[p].session_id
            IN  /\ obs'[p].saved \in {"committed", "failed"}
                /\ obs'[p].saved = "failed" =>
                       /\ db'.leads = db.leads
                       /\ db'.conversations = db.conversations
                /\ obs'[p].saved = "committed" =>
                       /\ sid \in DOMAIN db'.leads
                       /\ db'.leads[sid] =
                              UpdatedLead(IF sid \in DOMAIN db.leads
                                          THEN db.leads[sid] ELSE NewLead, state[p])
                       /\ db'.conversations = db.conversations + 2]_vars

\* the save of a second turn of a session failed: the lead keeps the row
\* of the first turn and no conversation row was added
C20_Witness ==
    \E p \in Procs :
        /\ obs[p].saved = "failed"
        /\ state[p].session_id \in DOMAIN db.leads
        /\ db.leads[state[p].session_id] #
               UpdatedLead(db.leads[state[p].session_id], state[p])
        /\ db.conversations = 2

\* the names and the ids of a sequence of tool messages or tool requests
ToolIds(msgs) == [i \in 1..Len(msgs) |-> msgs[i].tool_call_id]
ResultNames(msgs) == [i \in 1..Len(msgs) |-> msgs[i].content[2]]
RequestIds(tool_calls) == [i \in 1..Len(tool_calls) |-> tool_calls[i].id]
RequestNames(tool_calls) == [i \in 1..Len(tool_calls) |-> tool_calls[i].name]

LastContent(st) == st.messages[Len(st.messages)].content

\* C21: when the primary generation response requests tools, the tools are
\* executed one at a time in the order of the requests and one tool result
\* per request is appended in that order (while the loop runs, the results
\* answer the first requests), then exactly one second generation call is
\* made and its content is the reply; without tool requests there is
\* exactly one generation call and its content is the reply.
C21_ToolsThenSecondCall ==
    \A p \in Procs :
        LET requested == obs[p].requested
            results == local[p].tool_results
            n == Len(results)
        IN  /\ pc[p] = "tools" =>
                /\ n < Len(requested)
                /\ ToolIds(results) = SubSeq(RequestIds(requested), 1, n)
                /\ ResultNames(results) = SubSeq(RequestNames(requested), 1, n)
                /\ obs[p].gen_calls = 1
            /\ pc[p] = "second" \/ (obs[p].path = "succeeded" /\ requested # <<>>) =>
                /\ ToolIds(results) = RequestIds(requested)
                /\ ResultNames(results) = RequestNames(requested)
                /\ obs[p].tools_run = Len(requested)
                /\ obs[p].gen_calls = 2
            /\ obs[p].path = "succeeded" =>
                IF requested = <<>>
                THEN /\ obs[p].gen_calls = 1
                     /\ results = <<>>
                     /\ LastContent(state[p]) = "reply"
                ELSE LastContent(state[p]) = "final reply"

C21_Witness ==
    \E p \in Procs :
        /\ obs[p].path = "succeeded"
        /\ Len(obs[p].requested) = 3
        /\ obs[p].gen_calls = 2
        /\ LastContent(state[p]) = "final reply"
        /\ ResultNames(local[p].tool_results) =
               <<"search_cars", "make_coffee", "get_price_range">>

\* the text _execute_tool returns for a request, by what the tool did
ToolTexts(name) ==
    IF name \in KnownTools
    THEN {<<"tool result", name>>, <<"tool failed", name>>}
    ELSE {<<"unknown tool", name>>}

\* C22: _execute_tool never raises: a request for an unknown tool gives a
\* text naming the tool, an exception inside a known tool gives a text
\* result, the remaining requests are still executed, and a failed tool is
\* no failed generation: the streak stays as it was while the tools run, and
\* a turn that asked for tools fails only by its second generation call.
C22_ToolFailureIsText ==
    \A p \in Procs :
        LET requested == obs[p].requested
            results == local[p].tool_results
        IN  /\ \A i \in 1..Len(results) :
                /\ i <= Len(requested)
                /\ results[i].content \in ToolTexts(requested[i].name)
            /\ pc[p] \in {"tools", "second"} =>
                /\ obs[p].path = "normal"
                /\ error_context.consecutive_errors = obs[p].streak_before
                /\ state[p].messages = obs[p].initial_messages
            /\ requested # <<>> /\ obs[p].path \in {"succeeded", "failed"} =>
                /\ Len(results) = Len(requested)
                /\ obs[p].gen_calls = 2
                /\ obs[p].gen_error \in cfg.errors \cup {None}

\* a known tool raised, the tools after it ran and the turn got its reply
C22_Witness ==
    \E p \in Procs :
        /\ obs[p].path = "succeeded"
        /\ Len(local[p].tool_results) = 3
        /\ local[p].tool_results[1].content = <<"tool failed", "search_cars">>
        /\ local[p].tool_results[2].content = <<"unknown tool", "make_coffee">>
        /\ local[p].tool_results[3].content = <<"tool result", "get_price_range">>
        /\ error_context.consecutive_errors = 0

\* the amount the budget rules give for a numeral of value m / scale with a
\* magnitude word of the given class, the first rule that applies
ClaimedBudget(parts) ==
    IF parts.kind = "numeric" THEN Truncate(parts.m, parts.scale)
    ELSE IF parts.marker = "million" THEN (parts.m * Million) \div parts.scale
    ELSE IF parts.marker = "thousand" THEN (parts.m * Thousand) \div parts.scale
    ELSE IF parts.m < SmallNumber * parts.scale
    THEN (parts.m * Million) \div parts.scale
    ELSE parts.m \div parts.scale

\* C23: _parse_budget returns the truncation to integer of a numeric input;
\* for a text, with number the first numeric substring: number x 1,000,000
\* with a million marker, number x 1,000 with a thousand marker,
\* number x 1,000,000 for a bare number below 100 and the number itself for
\* a bare number of 100 or more.
C23_BudgetByMarker ==
    unit.called /\ unit.parts.kind # "none" =>
        unit.result = [raised |-> FALSE, value |-> Num(ClaimedBudget(unit.parts))]

\* C24: _parse_budget never raises: for every input value it returns an
\* integer or null, and null whenever no amount can be read from the input.
C24_ParseNeverRaises ==
    unit.called =>
        /\ ~unit.result.raised
        /\ IsNum(unit.result.value) \/ IsNull(unit.result.value)
        /\ unit.parts.kind = "none" => IsNull(unit.result.value)

\* the turn is past the extract_slots node, past the determine_stage node
AfterExtract(p) == obs[p].reply # "none"
AfterStage(p) == AfterExtract(p) /\ pc[p] \notin {"extract", "stage"}
Returned(p) == AfterExtract(p) /\ pc[p] = "idle" /\ outcome[p].returned

\* C25: a malformed extraction payload leaves extracted_data as it was and
\* sets no error field (the field is unset until the generation fails), and
\* the turn continues: the stage is classified from the slots as they were
\* and the generation step runs.
C25_MalformedPayloadIgnored ==
    \A p \in Procs :
        obs[p].reply = "malformed" =>
            /\ state[p].extracted_data = obs[p].data_before
            /\ pc[p] # "raised"
            /\ obs[p].path # "failed" => state[p].error = None
            /\ AfterStage(p) =>
                state[p].current_stage = StageOf(obs[p].data_before)
            /\ Returned(p) =>
                /\ obs[p].path \in {"fallback", "succeeded", "failed"}
                /\ outcome[p].dict["lead_status"] = StageOf(obs[p].data_before)
                /\ outcome[p].dict["extracted_data"] = obs[p].data_before

\* a turn with slots loaded from the lead got a malformed payload and
\* returned a generated reply with no error
C25_Witness ==
    \E p \in Procs :
        /\ obs[p].reply = "malformed"
        /\ obs[p].data_before # EmptyDict
        /\ Returned(p)
        /\ obs[p].path = "succeeded"
        /\ outcome[p].dict["error"] = None

\* C26: when the extraction oracle call fails with an AIServiceError, the
\* error field is that failure's user message (until a failed generation
\* replaces it), extracted_data is unchanged, missing_slots and the stage are
\* computed from the slots that existed, and the generation step still runs.
C26_ExtractionFailureDegrades ==
    \A p \in Procs :
        obs[p].reply = "failed" =>
            LET e == handle_openai_error(obs[p].extract_error)
            IN  /\ obs[p].extract_error \in cfg.errors
                /\ e.kind \in AIServiceErrors
                /\ state[p].extracted_data = obs[p].data_before
                /\ state[p].missing_slots = MissingSlots(obs[p].data_before)
                /\ pc[p] # "raised"
                /\ obs[p].path # "failed" => state[p].error = e.user_message
                /\ AfterStage(p) =>
                    state[p].current_stage = StageOf(obs[p].data_before)
                /\ Returned(p) =>
                    /\ obs[p].path \in {"fallback", "succeeded", "failed"}
                    /\ outcome[p].dict["lead_status"] = StageOf(obs[p].data_before)
                    /\ obs[p].path = "succeeded" =>
                        /\ outcome[p].dict["error"] = e.user_message
                        /\ outcome[p].dict["response"] \in {"reply", "final reply"}

\* the extraction of a turn with loaded slots failed after its retries, and
\* the turn returned a generated reply together with the failure's message
C26_Witness ==
    \E p \in Procs :
        /\ obs[p].reply = "failed"
        /\ obs[p].extract_error = "APITimeoutError"
        /\ obs[p].attempts = max_retries
        /\ obs[p].data_before # EmptyDict
        /\ Returned(p)
        /\ obs[p].path = "succeeded"
        /\ outcome[p].dict["error"] = "msg:connection"

\* C27: every key of extracted_data belongs to the fixed slot set, whatever
\* keys the extraction payload contains.
C27_KeysAreSlots ==
    \A p \in Procs :
        /\ DOMAIN state[p].extracted_data \subseteq Range(SLOTS)
        /\ outcome[p].returned =>
            DOMAIN outcome[p].dict["extracted_data"] \subseteq Range(SLOTS)

\* the slots in the order of the fixed set
SlotOrder ==
    <<"car_brand", "car_model", "budget_min", "budget_max", "country",
      "timeline", "body_type", "name", "phone">>

\* the members of slots that data has no value or a null for, in order
RECURSIVE NullSlots(_, _)
NullSlots(slots, data) ==
    IF slots = <<>> THEN <<>>
    ELSE IF Head(slots) \notin DOMAIN data \/ data[Head(slots)] = NULL
    THEN <<Head(slots)>> \o NullSlots(Tail(slots), data)
    ELSE NullSlots(Tail(slots), data)

\* C28: after _extract_slots, on every path (a merged payload, a merge an
\* exception cut short, a payload that is no object, a failed oracle call),
\* missing_slots is exactly the slots of the fixed set whose value in
\* extracted_data is null, in slot order.
C28_MissingSlotsAreNullSlots ==
    \A p \in Procs :
        AfterExtract(p) =>
            state[p].missing_slots = NullSlots(SlotOrder, state[p].extracted_data)

\* a payload gave an empty text and a zero, which are no nulls: the two
\* slots are not missing
C28_Witness ==
    \E p \in Procs :
        /\ obs[p].reply = "object"
        /\ pc[p] = "stage"
        /\ Get(state[p].extracted_data, "car_brand") = Text(<<>>)
        /\ Get(state[p].extracted_data, "budget_max") = Num(0)
        /\ state[p].missing_slots =
               <<"car_model", "budget_min", "country", "timeline", "body_type",
                 "name", "phone">>

\* the step in which the turn of p takes the fallback path or the normal one
DecidesPath(p) == obs[p].path = "none" /\ obs'[p].path # "none"

\* C29: the streak is shared by all sessions of one agent: it counts the
\* generations that failed since the last one that succeeded, whatever
\* sessions they belong to, so a success of any session resets it for all;
\* and a turn of any session takes the fallback path exactly when three or
\* more generations, of any sessions, failed in a row before it.
C29_StreakSharedBySessions ==
    /\ [](error_context.consecutive_errors = Len(streak_sessions))
    /\ [][\A p \in Procs :
            DecidesPath(p) =>
                (obs'[p].path = "fallback" <=> Len(streak_sessions) >= 3)]_vars

\* a turn of one session is on the fallback path after three failed
\* generations of the other session
C29_Witness ==
    \E p \in Procs :
        /\ obs[p].path = "fallback"
        /\ state[p].session_id = S2
        /\ streak_sessions = <<S1, S1, S1>>

\* after holds every slot that is not null in before, with the same value,
\* and holds no null
SlotsKept(before, after) ==
    /\ \A i \in DOMAIN SLOTS :
        Get(before, SLOTS[i]) # NULL =>
            /\ SLOTS[i] \in DOMAIN after
            /\ after[SLOTS[i]] = before[SLOTS[i]]
    /\ \A k \in DOMAIN after : after[k] # NULL

\* what the next turn of the session starts with if its load succeeds:
\* lines 471-483 on the row of the session
NextLoad(sid) ==
    IF sid \in DOMAIN db.leads THEN LoadedSlots(db.leads[sid]) ELSE EmptyDict

\* C30: if the save of a turn commits, the next turn of the same session
\* whose load succeeds starts with extracted_data holding every slot of the
\* fixed set that was not null at the end of the turn, each with the same
\* value, and holding no null.
C30_SavedSlotsComeBack ==
    \A p \in Procs :
        pc[p] = "idle" /\ obs[p].saved = "committed" =>
            SlotsKept(state[p].extracted_data, NextLoad(state[p].session_id))

\* the turn went through _generate_response to its end
Generated(p) == obs[p].path \in {"fallback", "succeeded", "failed"}

\* C31: within a turn the messages list is only appended to (it starts as
\* the history plus the user's message and stays so until the reply), and
\* every path of _generate_response (fallback, plain success, tool-call
\* branch, failure) appends exactly one assistant message, whose content is
\* the response of the outcome.
C31_OneReplyAppended ==
    \A p \in Procs :
        /\ obs[p].path \in {"normal"} \/ (obs[p].path = "none" /\ pc[p] # "idle") =>
            state[p].messages = obs[p].initial_messages
        /\ Generated(p) =>
            LET n == Len(obs[p].initial_messages)
            IN  /\ Len(state[p].messages) = n + 1
                /\ SubSeq(state[p].messages, 1, n) = obs[p].initial_messages
                /\ state[p].messages[n + 1].role = "assistant"
                /\ pc[p] = "idle" /\ outcome[p].returned =>
                    outcome[p].dict["response"] = state[p].messages[n + 1].content

\* a turn with a history took the tool-call branch and returned the content
\* of the one message it appended
C31_Witness ==
    \E p \in Procs :
        /\ obs[p].path = "succeeded"
        /\ obs[p].requested # <<>>
        /\ Len(obs[p].initial_messages) = 3
        /\ Len(state[p].messages) = 4
        /\ pc[p] = "idle" /\ outcome[p].returned
        /\ outcome[p].dict["response"] = "final reply"

\* the fixed user-safe messages of the failure taxonomy (errors.py 24-125)
\* and of get_fallback_response
SafeMessages ==
    {"msg:rate_limit", "msg:connection", "msg:timeout", "msg:configuration",
     "msg:request_failed", "msg:unexpected", FallbackGeneral}

\* text the generation oracle or process_message itself wrote
OwnTexts == {"reply", "final reply", PromptForInput}

\* C32: the user never sees a raw failure: whatever oracle, tool or
\* persistence call failed during the turn, the response of the outcome is
\* oracle-generated text or a fixed user-safe message, and its error field
\* is null or a fixed user-safe message, never the text of an exception.
C32_NoRawFailure ==
    \A p \in Procs :
        outcome[p].returned =>
            /\ outcome[p].dict["response"] \in OwnTexts \cup SafeMessages
            /\ "error" \in DOMAIN outcome[p].dict =>
                outcome[p].dict["error"] \in {None} \cup SafeMessages

\* the turn of p entered the pipeline: its message was not blank
Entered(p) == obs[p].message \notin {"none", "empty", "blank"}

\* C33: in every turn that enters the pipeline the steps run once each in
\* the order extraction, classification, generation, persistence: the
\* generation starts after the classification, which has read the slots
\* this turn's extraction left; the persistence runs after the reply was
\* appended; and the turn returns after all four, with the stage computed
\* in this turn.
C33_PipelineInOrder ==
    \A p \in Procs :
        Entered(p) =>
            /\ obs[p].path # "none" =>
                /\ AfterStage(p)
                /\ state[p].current_stage = StageOf(state[p].extracted_data)
            /\ obs[p].saved # "none" =>
                /\ Generated(p)
                /\ Len(state[p].messages) = Len(obs[p].initial_messages) + 1
            /\ pc[p] = "save" => Generated(p)
            /\ pc[p] = "idle" =>
                /\ outcome[p].returned
                /\ AfterExtract(p)
                /\ Generated(p)
                /\ obs[p].saved # "none"
                /\ obs[p].db_access = 2
                /\ outcome[p].dict["lead_status"] = StageOf(state[p].extracted_data)

\* the step issues a generation oracle call of the turn of p: the primary
\* call of line 302 or the second call of line 320
IssuesGeneration(p) == obs'[p].gen_calls > obs[p].gen_calls

\* C34: with turns of several sessions interleaved at the oracle calls, no
\* generation oracle call, primary or second, is issued while the streak of
\* the shared ErrorContext is 3 or more.
C34_NoGenerationDuringOutage ==
    [][\A p \in Procs :
        IssuesGeneration(p) => ~should_use_fallback(error_context)]_vars

\* the order of the stages
StageRank(stage) ==
    CASE stage = "discovery" -> 1 [] stage = "qualification" -> 2
      [] stage = "closing" -> 3 [] stage = "completed" -> 4
      [] OTHER -> 0

\* C35: across successive turns of one session, processed one after the
\* other, the lead_status process_message reports never moves backward in
\* the order discovery < qualification < closing < completed, whatever
\* fails at the oracle, at the load or at the save.
C35_StatusNeverMovesBack ==
    \A sid \in DOMAIN reported :
        reported[sid][1] # "none" =>
            /\ StageRank(reported[sid][2]) > 0
            /\ StageRank(reported[sid][1]) <= StageRank(reported[sid][2])

\* the columns whose values close a lead
QualifyingColumns == {"car_brand", "budget_max", "name", "phone"}

\* C36: after every committed save the persisted lead has status
\* "qualified" if and only if its persisted car_brand, budget_max, name and
\* phone are all non-null.
C36_StatusFollowsSlots ==
    \A sid \in DOMAIN db.leads :
        (db.leads[sid]["status"] = StatusQualified)
            <=> (\A c \in QualifyingColumns : ~IsNull(db.leads[sid][c]))

\* the columns _save_to_db writes through "or"
KeptColumns == LeadColumns \cup {"qualification"}

\* C37: through any sequence of saves for a session, a persisted lead field
\* that is non-null never becomes null again: a save keeps it or replaces
\* it with another non-null value.
C37_StoredFieldsStay ==
    [][\A sid \in DOMAIN db.leads : \A c \in KeptColumns :
          ~IsNull(db.leads[sid][c]) =>
              /\ sid \in DOMAIN db'.leads
              /\ ~IsNull(db'.leads[sid][c])]_vars

\* the step is a step of _extract_slots of the turn p: an attempt of the
\* extraction call that returns or raises
ExtractionStep(p) == pc[p] = "extract" /\ obs'[p].attempts # obs[p].attempts

\* the step ends a generation call of the turn p, or the tool run whose
\* exception ends _generate_response
GenerationOutcome(p) ==
    /\ pc[p] \in {"primary", "tools", "second"}
    /\ pc'[p] # pc[p]

\* C38: _extract_slots never changes the ErrorContext: neither an
\* extraction call that succeeds nor one that fails alters the streak or
\* the total; only the outcome of response generation does.
C38_ExtractionLeavesContext ==
    [][/\ \A p \in Procs : ExtractionStep(p) => error_context' = error_context
       /\ error_context' # error_context => \E p \in Procs : GenerationOutcome(p)]_vars

\* a turn whose extraction call failed, past _extract_slots, with the
\* ErrorContext as the failed generation of the turn before left it
C38_Witness ==
    \E p \in Procs :
        /\ pc[p] = "stage"
        /\ obs[p].reply = "failed"
        /\ error_context.consecutive_errors = 1
        /\ error_context.error_count = 1

\* the call of _determine_stage by the turn p evaluates the qualification
\* rule (line 210) and returns
Qualifies(p) ==
    /\ pc[p] = "stage"
    /\ pc'[p] = "generate"
    /\ has_contact_info(state[p].extracted_data)
    /\ has_qualification_info(state[p].extracted_data)

WithinBudget(p) ==
    /\ obs[p].attempts <= max_retries
    /\ obs[p].gen_calls <= 2
    /\ obs[p].tools_run <= Len(obs[p].requested)
    /\ pc[p] = "tools" => obs[p].gen_calls = 1
    /\ obs[p].gen_calls = 2 => obs[p].tools_run = Len(obs[p].requested)

\* C40: every process_message call terminates, provided each oracle, tool
\* and database call returns or fails: a turn makes at most 3 attempts of
\* the extraction call and at most 2 generation calls, runs each requested
\* tool exactly once before the second call, and the second response
\* starts no further tool round.
C40_TurnTerminates ==
    /\ [](\A p \in Procs : WithinBudget(p))
    /\ [][\A p \in Procs : pc[p] = "second" => pc'[p] \in {"second", "save"}]_vars
    /\ \A p \in Procs : (pc[p] # "idle") ~> (pc[p] = "idle" /\ outcome[p].returned)

\* a turn that used all three attempts of the extraction call, both
\* generation calls and ran the two tools requested has returned
C40_Witness ==
    \E p \in Procs :
        /\ pc[p] = "idle"
        /\ outcome[p].returned
        /\ obs[p].attempts = max_retries
        /\ obs[p].gen_calls = 2
        /\ Len(obs[p].requested) = 2
        /\ obs[p].tools_run = 2

====
